---------------------------- MODULE Spec2Model ----------------------------
(***************************************************************************)
(* A model of the Boulder Dash simulation core (boulderdash_base.cpp):     *)
(* the game state, the level parser, the incremental hash, the RNG, the    *)
(* grid primitives, the element update rules and the tick driver.          *)
(*                                                                         *)
(* A 64-bit unsigned word (the hash, the RNG state) is represented by the  *)
(* tuple of its eight bytes, the least significant first; addition and     *)
(* multiplication are modulo 2^64.  The reward signal, a word that is only *)
(* OR-ed with one-bit codes, is represented by the set of its set bits.    *)
(***************************************************************************)
EXTENDS Integers, Sequences, FiniteSets, TLC

(***************************************************************************)
(* 64-bit words                                                            *)
(***************************************************************************)
Pow2(n) == 2^n

\* Conversion of a C++ int to uint64_t (two's complement for negatives).
RECURSIVE IntBytes(_, _)
IntBytes(n, count) ==
    IF count = 0 THEN <<>>
    ELSE <<n % 256>> \o IntBytes(n \div 256, count - 1)

IntToWord(n) == IntBytes(n, 8)

\* Propagation of carries through the byte columns j .. 8; the carry out of
\* the last byte is dropped (arithmetic modulo 2^64).
RECURSIVE CarryBytes(_, _, _)
CarryBytes(colsum, j, carry) ==
    IF j > 8 THEN <<>>
    ELSE <<(colsum[j] + carry) % 256>>
         \o CarryBytes(colsum, j + 1, (colsum[j] + carry) \div 256)

AddWord(x, y) == CarryBytes([j \in DOMAIN x |-> x[j] + y[j]] @@ <<>>, 1, 0)

RECURSIVE ColumnSum(_, _, _, _)
ColumnSum(a, b, j, i) ==
    IF i > j THEN 0
    ELSE a[i] * b[j - i + 1] + ColumnSum(a, b, j, i + 1)

MulWord(x, y) ==
    CarryBytes([j \in DOMAIN x |-> ColumnSum(x, y, j, 1)] @@ <<>>, 1, 0)

\* The XOR of two 4-bit values, tabulated (f @@ <<>> is f: with it the table
\* is computed once instead of at every use).
XorNibble ==
    [a \in 0..15 |->
        [b \in 0..15 |->
              ((a + b) % 2)
            + 2 * (((a \div 2) + (b \div 2)) % 2)
            + 4 * (((a \div 4) + (b \div 4)) % 2)
            + 8 * (((a \div 8) + (b \div 8)) % 2)] @@ <<>>] @@ <<>>

XorByte(a, b) ==
    16 * XorNibble[a \div 16][b \div 16] + XorNibble[a % 16][b % 16]

\* Bytewise XOR of two words.
XorWord(x, y) == [j \in DOMAIN x |-> XorByte(x[j], y[j])] @@ <<>>

\* x >> n: byte j is made of the bytes j + n \div 8 and j + n \div 8 + 1 of x.
ShiftRight(x, n) ==
    [j \in DOMAIN x |->
          (IF j + (n \div 8) <= 8
           THEN x[j + (n \div 8)] \div Pow2(n % 8) ELSE 0)
        + (IF j + (n \div 8) + 1 <= 8
           THEN (x[j + (n \div 8) + 1] % Pow2(n % 8)) * Pow2(8 - (n % 8))
           ELSE 0)] @@ <<>>

\* x << n: byte j is made of the bytes j - n \div 8 and j - n \div 8 - 1 of x.
ShiftLeft(x, n) ==
    [j \in DOMAIN x |->
          (IF j - (n \div 8) >= 1
           THEN (x[j - (n \div 8)] * Pow2(n % 8)) % 256 ELSE 0)
        + (IF j - (n \div 8) - 1 >= 1
           THEN x[j - (n \div 8) - 1] \div Pow2(8 - (n % 8)) ELSE 0)] @@ <<>>

\* x ^ (x >> n) and x ^ (x << n)
XorShiftRight(x, n) == XorWord(x, ShiftRight(x, n))

XorShiftLeft(x, n) == XorWord(x, ShiftLeft(x, n))

\* x % m for a small modulus m, from the bytes j .. 1 of x (acc is the value
\* of the bytes above j, modulo m).
RECURSIVE ModSmallFrom(_, _, _, _)
ModSmallFrom(x, m, j, acc) ==
    IF j < 1 THEN acc
    ELSE ModSmallFrom(x, m, j - 1, (acc * 256 + x[j]) % m)

ModSmall(x, m) == ModSmallFrom(x, m, 8, 0)

(***************************************************************************)
(* SplitMix64, Xorshift64 and the per-(kind, index) hash value             *)
(***************************************************************************)
SPLIT64_S1 == 30
SPLIT64_S2 == 27
SPLIT64_S3 == 31
\* 0x9E3779B97F4A7C15, 0xBF58476D1CE4E5B9, 0x94D049BB133111EB
SPLIT64_C1 == <<21, 124, 74, 127, 185, 121, 55, 158>>
SPLIT64_C2 == <<185, 229, 228, 28, 109, 71, 88, 191>>
SPLIT64_C3 == <<235, 17, 49, 19, 187, 73, 208, 148>>

splitmix64(seed) ==
    XorShiftRight(
        MulWord(XorShiftRight(
                    MulWord(XorShiftRight(AddWord(seed, SPLIT64_C1), SPLIT64_S1),
                            SPLIT64_C2),
                    SPLIT64_S2),
                SPLIT64_C3),
        SPLIT64_S3)

\* The new generator state, which is also the value returned.
xorshift64(s) == XorShiftLeft(XorShiftRight(XorShiftLeft(s, 13), 7), 17)

\* The result is the SplitMix64 of the seed (the same steps as splitmix64).
to_local_hash(flat_size, el, offset) ==
    splitmix64(IntToWord((flat_size * el) + offset))

(***************************************************************************)
(* HiddenCellType, Direction, reward codes and configuration enumerations   *)
(***************************************************************************)
kNull == -1
kAgent == 0
kEmpty == 1
kDirt == 2
kStone == 3
kStoneFalling == 4
kDiamond == 5
kDiamondFalling == 6
kExitClosed == 7
kExitOpen == 8
kAgentInExit == 9
kFireflyUp == 10
kFireflyLeft == 11
kFireflyDown == 12
kFireflyRight == 13
kButterflyUp == 14
kButterflyLeft == 15
kButterflyDown == 16
kButterflyRight == 17
kWallBrick == 18
kWallSteel == 19
kWallMagicDormant == 20
kWallMagicOn == 21
kWallMagicExpired == 22
kBlob == 23
kExplosionDiamond == 24
kExplosionBoulder == 25
kExplosionEmpty == 26
kGateRedClosed == 27
kGateRedOpen == 28
kKeyRed == 29
kGateBlueClosed == 30
kGateBlueOpen == 31
kKeyBlue == 32
kGateGreenClosed == 33
kGateGreenOpen == 34
kKeyGreen == 35
kGateYellowClosed == 36
kGateYellowOpen == 37
kKeyYellow == 38
kNut == 39
kNutFalling == 40
kBomb == 41
kBombFalling == 42
kOrangeUp == 43
kOrangeLeft == 44
kOrangeDown == 45
kOrangeRight == 46
kPebbleInDirt == 47
kStoneInDirt == 48
kVoidInDirt == 49
kNumHiddenCellType == 50
kNumVisibleCellType == 34
kNumActions == 4
kNumDirections == 9
kUp == 0
kRight == 1
kDown == 2
kLeft == 3
kNoop == 4
kUpRight == 5
kDownRight == 6
kDownLeft == 7
kUpLeft == 8
kExplode == 1
kConvert == 2
kDelay == 1
kInstant == 2
\* Reward codes are single bits of the reward word.
kRewardNone == {}
kRewardAgentDies == {0}
kRewardCollectDiamond == {1}
kRewardWalkThroughExit == {2}
kRewardNutToDiamond == {3}
kRewardButterflyToDiamond == {4}
kRewardCollectKey == {5}
kRewardCollectKeyRed == {6}
kRewardCollectKeyBlue == {7}
kRewardCollectKeyGreen == {8}
kRewardCollectKeyYellow == {9}
kRewardWalkThroughGate == {10}
kRewardWalkThroughGateRed == {11}
kRewardWalkThroughGateBlue == {12}
kRewardWalkThroughGateGreen == {13}
kRewardWalkThroughGateYellow == {14}

(***************************************************************************)
(* Element catalog.  An Element is identified by its hidden cell kind      *)
(* (Element::operator== compares cell_type only), so the kEl* elements of  *)
(* the code are the k* kinds here.  Property masks are sets of flags.      *)
(***************************************************************************)
kConsumable  == "Consumable"
kCanExplode  == "CanExplode"
kRounded     == "Rounded"
kTraversable == "Traversable"
kPushable    == "Pushable"

Fireflies   == {kFireflyUp, kFireflyLeft, kFireflyDown, kFireflyRight}
Butterflies == {kButterflyUp, kButterflyLeft, kButterflyDown, kButterflyRight}
Oranges     == {kOrangeUp, kOrangeLeft, kOrangeDown, kOrangeRight}
Keys        == {kKeyRed, kKeyBlue, kKeyGreen, kKeyYellow}
OpenGates   == {kGateRedOpen, kGateBlueOpen, kGateGreenOpen, kGateYellowOpen}
Explosions  == {kExplosionDiamond, kExplosionBoulder, kExplosionEmpty}

\* The property mask of the element of a kind.
ElementProperties(el) ==
    (IF el \in {kAgent, kEmpty, kDirt, kStone, kStoneFalling, kDiamond,
                kDiamondFalling, kWallBrick, kWallMagicDormant, kWallMagicOn,
                kWallMagicExpired, kBlob, kNut, kNutFalling, kBomb,
                kBombFalling, kPebbleInDirt, kStoneInDirt, kVoidInDirt}
               \cup Fireflies \cup Butterflies \cup Oranges
     THEN {kConsumable} ELSE {})
    \cup
    (IF el \in {kAgent, kBomb, kBombFalling}
               \cup Fireflies \cup Butterflies \cup Oranges
     THEN {kCanExplode} ELSE {})
    \cup
    (IF el \in {kStone, kDiamond, kWallBrick, kNut, kNutFalling, kBomb,
                kBombFalling}
     THEN {kRounded} ELSE {})
    \cup
    (IF el \in {kEmpty, kDirt, kDiamond, kDiamondFalling, kExitOpen} \cup Keys
     THEN {kTraversable} ELSE {})
    \cup
    (IF el \in {kStone, kNut, kBomb} THEN {kPushable} ELSE {})

IsButterfly(el) == el \in Butterflies
IsFirefly(el)   == el \in Fireflies
IsOrange(el)    == el \in Oranges
IsMagicWall(el) == el \in {kWallMagicDormant, kWallMagicOn}
IsExplosion(el) == el \in Explosions
IsKey(el)       == el \in Keys
IsOpenGate(el)  == el \in OpenGates
IsDirectionHorz(direction) == direction \in {kLeft, kRight}

\* (column offset, row offset) of each direction.
kDirectionOffsets(direction) ==
    CASE direction = kUp        -> <<0, -1>>
      [] direction = kRight     -> <<1, 0>>
      [] direction = kDown      -> <<0, 1>>
      [] direction = kLeft      -> <<-1, 0>>
      [] direction = kNoop      -> <<0, 0>>
      [] direction = kUpRight   -> <<1, -1>>
      [] direction = kDownRight -> <<1, 1>>
      [] direction = kDownLeft  -> <<-1, 1>>
      [] direction = kUpLeft    -> <<-1, -1>>

kRotateLeft(direction) ==
    CASE direction = kUp    -> kLeft
      [] direction = kLeft  -> kDown
      [] direction = kDown  -> kRight
      [] direction = kRight -> kUp
      [] OTHER              -> kNoop

kRotateRight(direction) ==
    CASE direction = kUp    -> kRight
      [] direction = kRight -> kDown
      [] direction = kDown  -> kLeft
      [] direction = kLeft  -> kUp
      [] OTHER              -> kNoop

kFireflyToDirection(el) ==
    CASE el = kFireflyUp    -> kUp
      [] el = kFireflyLeft  -> kLeft
      [] el = kFireflyDown  -> kDown
      [] el = kFireflyRight -> kRight

kDirectionToFirefly(direction) ==
    CASE direction = kUp    -> kFireflyUp
      [] direction = kLeft  -> kFireflyLeft
      [] direction = kDown  -> kFireflyDown
      [] direction = kRight -> kFireflyRight

kButterflyToDirection(el) ==
    CASE el = kButterflyUp    -> kUp
      [] el = kButterflyLeft  -> kLeft
      [] el = kButterflyDown  -> kDown
      [] el = kButterflyRight -> kRight

kDirectionToButterfly(direction) ==
    CASE direction = kUp    -> kButterflyUp
      [] direction = kLeft  -> kButterflyLeft
      [] direction = kDown  -> kButterflyDown
      [] direction = kRight -> kButterflyRight

kOrangeToDirection(el) ==
    CASE el = kOrangeUp    -> kUp
      [] el = kOrangeLeft  -> kLeft
      [] el = kOrangeDown  -> kDown
      [] el = kOrangeRight -> kRight

kDirectionToOrange(direction) ==
    CASE direction = kUp    -> kOrangeUp
      [] direction = kLeft  -> kOrangeLeft
      [] direction = kDown  -> kOrangeDown
      [] direction = kRight -> kOrangeRight

kKeyToGate(el) ==
    CASE el = kKeyRed    -> kGateRedClosed
      [] el = kKeyBlue   -> kGateBlueClosed
      [] el = kKeyGreen  -> kGateGreenClosed
      [] el = kKeyYellow -> kGateYellowClosed

kGateOpenMap(el) ==
    CASE el = kGateRedClosed    -> kGateRedOpen
      [] el = kGateBlueClosed   -> kGateBlueOpen
      [] el = kGateGreenClosed  -> kGateGreenOpen
      [] el = kGateYellowClosed -> kGateYellowOpen

kKeyToSignal(el) ==
    CASE el = kKeyRed    -> kRewardCollectKeyRed
      [] el = kKeyBlue   -> kRewardCollectKeyBlue
      [] el = kKeyGreen  -> kRewardCollectKeyGreen
      [] el = kKeyYellow -> kRewardCollectKeyYellow

kGateToSignal(el) ==
    CASE el = kGateRedOpen    -> kRewardWalkThroughGateRed
      [] el = kGateBlueOpen   -> kRewardWalkThroughGateBlue
      [] el = kGateGreenOpen  -> kRewardWalkThroughGateGreen
      [] el = kGateYellowOpen -> kRewardWalkThroughGateYellow

\* The explosion an element leaves; kExplosionEmpty when the map has no entry
\* (the callers' `it == end() ? kElExplosionEmpty : it->second`).
kElementToExplosion(el) ==
    IF el \in Butterflies THEN kExplosionDiamond ELSE kExplosionEmpty

kExplosionToElement(el) ==
    CASE el = kExplosionDiamond -> kDiamond
      [] el = kExplosionBoulder -> kStone
      [] el = kExplosionEmpty   -> kEmpty

kExplosionToReward(el) ==
    IF el = kExplosionDiamond THEN kRewardButterflyToDiamond ELSE kRewardNone

kMagicWallConversion(el) ==
    CASE el = kStoneFalling   -> kDiamondFalling
      [] el = kDiamondFalling -> kStoneFalling
      [] el = kStone          -> kDiamond
      [] el = kDiamond        -> kStone

kElToFalling(el) ==
    CASE el = kStone   -> kStoneFalling
      [] el = kDiamond -> kDiamondFalling
      [] el = kNut     -> kNutFalling
      [] el = kBomb    -> kBombFalling

(***************************************************************************)
(* Board parser.  A level string is a sequence of characters.              *)
(***************************************************************************)
DigitValue(c) ==
    CASE c = "0" -> 0 [] c = "1" -> 1 [] c = "2" -> 2 [] c = "3" -> 3
      [] c = "4" -> 4 [] c = "5" -> 5 [] c = "6" -> 6 [] c = "7" -> 7
      [] c = "8" -> 8 [] c = "9" -> 9

IsDigit(c) == c \in {"0", "1", "2", "3", "4", "5", "6", "7", "8", "9"}

\* The std::getline(board_ss, segment, '|') loop: the segments between the
\* delimiters; an empty segment at the end of the string is not produced.
SplitSegments(str) ==
    LET bars   == {i \in 1..Len(str) : str[i] = "|"}
        \* The position of the k-th delimiter; 0 before the first segment,
        \* Len(str) + 1 after the last one.
        bar(k) == IF k = 0 THEN 0
                  ELSE IF k > Cardinality(bars) THEN Len(str) + 1
                  ELSE CHOOSE i \in bars :
                            Cardinality({j \in bars : j < i}) = k - 1
        count  == IF bar(Cardinality(bars)) = Len(str)
                  THEN Cardinality(bars) ELSE Cardinality(bars) + 1
    IN  [k \in 1..count |-> SubSeq(str, bar(k - 1) + 1, bar(k) - 1)] @@ <<>>

RECURSIVE SkipSpace(_, _)
SkipSpace(seg, i) ==
    IF i <= Len(seg) /\ seg[i] = " " THEN SkipSpace(seg, i + 1) ELSE i

RECURSIVE ReadDigits(_, _, _)
ReadDigits(seg, i, acc) ==
    IF i <= Len(seg) /\ IsDigit(seg[i])
    THEN ReadDigits(seg, i + 1, 10 * acc + DigitValue(seg[i]))
    ELSE acc

\* std::stoi: leading whitespace, an optional sign, then digits; what follows
\* the digits is ignored; no digit at all is std::invalid_argument.
stoi(seg) ==
    LET i0  == SkipSpace(seg, 1)
        neg == i0 <= Len(seg) /\ seg[i0] = "-"
        i1  == IF i0 <= Len(seg) /\ seg[i0] \in {"-", "+"} THEN i0 + 1 ELSE i0
    IN  IF i1 <= Len(seg) /\ IsDigit(seg[i1])
        THEN [ok |-> TRUE,
              value |-> IF neg THEN 0 - ReadDigits(seg, i1, 0)
                               ELSE ReadDigits(seg, i1, 0)]
        ELSE [ok |-> FALSE, value |-> 0]

\* The fields parse_board_str sets, and `error`: "none", or the failure
\* ("assert" for a failed assertion, otherwise the exception thrown).  The
\* two assertions on the number of segments exist only in a build without
\* NDEBUG; with NDEBUG (ndebug) fewer than three segments make the reads of
\* seglist[0..2] run past the vector ("ub").
parse_board_str(board_str, ndebug) ==
    LET seglist == SplitSegments(board_str)
        nums    == [i \in 1..Len(seglist) |-> stoi(seglist[i])]
        failure(e) == [error |-> e, rows |-> -1, cols |-> -1, gems_required |-> 0,
                       grid |-> <<>>, has_updated |-> <<>>, agent_idx |-> -1,
                       is_agent_alive |-> FALSE, is_agent_in_exit |-> FALSE]
    IN  IF Len(seglist) < 4 /\ ~ndebug THEN failure("assert")
        ELSE IF Len(seglist) < 3 THEN failure("ub")
        ELSE IF ~nums[1].ok \/ ~nums[2].ok THEN failure("invalid_argument")
        ELSE IF Len(seglist) # (nums[1].value * nums[2].value) + 3 /\ ~ndebug
        THEN failure("assert")
        ELSE IF \E i \in 3..Len(seglist) : ~nums[i].ok
        THEN failure("invalid_argument")
        ELSE IF \E i \in 4..Len(seglist) :
                    nums[i].value < 0 \/ nums[i].value >= kNumHiddenCellType
        THEN failure("invalid_argument")
        ELSE
        LET n      == Len(seglist) - 3
            grid   == [i \in 0..(n - 1) |-> nums[i + 4].value]
            agents == {i \in 0..(n - 1) : grid[i] \in {kAgent, kAgentInExit}}
            last   == CHOOSE i \in agents : \A j \in agents : j <= i
        IN  IF agents = {} \/ Cardinality(agents) > 1
            THEN failure("invalid_argument")
            ELSE [error |-> "none",
                  rows |-> nums[1].value,
                  cols |-> nums[2].value,
                  gems_required |-> nums[3].value,
                  grid |-> grid,
                  has_updated |-> [i \in 0..(n - 1) |-> FALSE],
                  agent_idx |-> last,
                  is_agent_alive |-> TRUE,
                  is_agent_in_exit |-> grid[last] = kAgentInExit]

(***************************************************************************)
(* Game parameters and the levels the model is run on                      *)
(***************************************************************************)
DEFAULT_MAGIC_WALL_STEPS == 140
DEFAULT_BLOB_CHANCE == 20
\* 0.16 as a fraction; blob_max_size is the integer part of the product.
DEFAULT_BLOB_MAX_PERCENTAGE == <<16, 100>>

DefaultParams ==
    [gravity |-> FALSE,
     magic_wall_steps |-> DEFAULT_MAGIC_WALL_STEPS,
     blob_chance |-> DEFAULT_BLOB_CHANCE,
     blob_max_percentage |-> DEFAULT_BLOB_MAX_PERCENTAGE,
     disable_explosions |-> FALSE,
     butterfly_explosion_ver |-> kExplode,
     butterfly_move_ver |-> kDelay]

\* A diamond, then the exit (gems_required = 1).
\* "3|3|1|0|5|1|2|7|1|1|1|18"
LevelExit ==
    [board_str |->
        <<"3", "|", "3", "|", "1", "|", "0", "|", "5", "|", "1", "|", "2",
        "|", "7", "|", "1", "|", "1", "|", "1", "|", "1", "8">>,
     params |-> DefaultParams]

\* With gravity: a stone above the agent, an open gate beside it.
\* "3|4|0|1|3|1|1|1|1|1|2|19|0|28|5"
LevelStoneGate ==
    [board_str |->
        <<"3", "|", "4", "|", "0", "|", "1", "|", "3", "|", "1", "|", "1",
        "|", "1", "|", "1", "|", "1", "|", "2", "|", "1", "9", "|", "0",
        "|", "2", "8", "|", "5">>,
     params |-> [DefaultParams EXCEPT !.gravity = TRUE]]

\* A firefly circling a wall.
\* "3|3|0|0|1|1|1|18|1|1|1|10"
LevelFirefly ==
    [board_str |->
        <<"3", "|", "3", "|", "0", "|", "0", "|", "1", "|", "1", "|", "1",
        "|", "1", "8", "|", "1", "|", "1", "|", "1", "|", "1", "0">>,
     params |-> DefaultParams]

\* Instant butterflies: a blocked butterfly in the top row, facing right.
\* "3|3|0|2|17|2|2|2|2|0|2|2"
LevelButterflyInstant ==
    [board_str |->
        <<"3", "|", "3", "|", "0", "|", "2", "|", "1", "7", "|", "2", "|",
        "2", "|", "2", "|", "2", "|", "0", "|", "2", "|", "2">>,
     params |-> [DefaultParams EXCEPT !.butterfly_move_ver = kInstant]]

\* Instant butterflies: a blocked butterfly in the first column, facing up.
\* "3|3|0|2|2|0|14|2|2|2|2|2"
LevelButterflyWrap ==
    [board_str |->
        <<"3", "|", "3", "|", "0", "|", "2", "|", "2", "|", "0", "|", "1",
        "4", "|", "2", "|", "2", "|", "2", "|", "2", "|", "2">>,
     params |-> [DefaultParams EXCEPT !.butterfly_move_ver = kInstant]]

\* With gravity, butterflies convert: stones above a butterfly and above an empty column.
\* "4|3|0|3|2|3|1|2|1|16|2|1|2|0|1"
LevelConvert ==
    [board_str |->
        <<"4", "|", "3", "|", "0", "|", "3", "|", "2", "|", "3", "|", "1",
        "|", "2", "|", "1", "|", "1", "6", "|", "2", "|", "1", "|", "2",
        "|", "0", "|", "1">>,
     params |-> [DefaultParams EXCEPT !.gravity = TRUE, !.butterfly_explosion_ver = kConvert]]

\* A blob in dirt that always grows (blob_max_size = 1).
\* "3|3|0|0|2|2|2|23|2|2|2|2"
LevelBlob ==
    [board_str |->
        <<"3", "|", "3", "|", "0", "|", "0", "|", "2", "|", "2", "|", "2",
        "|", "2", "3", "|", "2", "|", "2", "|", "2", "|", "2">>,
     params |-> [DefaultParams EXCEPT !.blob_chance = 255]]

\* A blob enclosed by steel walls.
\* "3|3|0|0|1|19|1|19|23|1|1|19"
LevelBlobEnclosed ==
    [board_str |->
        <<"3", "|", "3", "|", "0", "|", "0", "|", "1", "|", "1", "9", "|",
        "1", "|", "1", "9", "|", "2", "3", "|", "1", "|", "1", "|", "1",
        "9">>,
     params |-> DefaultParams]

\* An orange moving up along a wall.
\* "3|3|0|0|1|1|1|19|1|1|1|43"
LevelOrange ==
    [board_str |->
        <<"3", "|", "3", "|", "0", "|", "0", "|", "1", "|", "1", "|", "1",
        "|", "1", "9", "|", "1", "|", "1", "|", "1", "|", "4", "3">>,
     params |-> DefaultParams]

\* With gravity: stones above a dormant magic wall and above one in the
\* bottom row (4 steps).
\* "4|3|0|3|3|0|1|2|1|20|1|4|1|2|20"
LevelMagic ==
    [board_str |->
        <<"4", "|", "3", "|", "0", "|", "3", "|", "3", "|", "0", "|", "1",
        "|", "2", "|", "1", "|", "2", "0", "|", "1", "|", "4", "|", "1",
        "|", "2", "|", "2", "0">>,
     params |-> [DefaultParams EXCEPT !.gravity = TRUE, !.magic_wall_steps = 4]]

\* Keys (one behind an open gate and beside a firefly), closed and open
\* gates, a diamond and an open exit.
\* "3|4|0|0|29|27|1|32|31|5|1|10|30|32|8"
LevelKeyGate ==
    [board_str |->
        <<"3", "|", "4", "|", "0", "|", "0", "|", "2", "9", "|", "2", "7",
        "|", "1", "|", "3", "2", "|", "3", "1", "|", "5", "|", "1", "|",
        "1", "0", "|", "3", "0", "|", "3", "2", "|", "8">>,
     params |-> DefaultParams]

\* With gravity: a stone, a nut and a bomb beside the agent's path, a falling
\* stone above a nut.
\* "4|4|0|3|0|39|1|2|2|1|4|1|41|1|39|1|2|2|2"
LevelPushNutBomb ==
    [board_str |->
        <<"4", "|", "4", "|", "0", "|", "3", "|", "0", "|", "3", "9", "|",
        "1", "|", "2", "|", "2", "|", "1", "|", "4", "|", "1", "|", "4",
        "1", "|", "1", "|", "3", "9", "|", "1", "|", "2", "|", "2", "|",
        "2">>,
     params |-> [DefaultParams EXCEPT !.gravity = TRUE]]

\* With gravity: a stone in the top row, two cells above the agent.
\* "3|3|0|1|3|1|1|1|1|1|0|1"
LevelStoneAboveAgent ==
    [board_str |->
        <<"3", "|", "3", "|", "0", "|", "1", "|", "3", "|", "1", "|", "1",
        "|", "1", "|", "1", "|", "1", "|", "0", "|", "1">>,
     params |-> [DefaultParams EXCEPT !.gravity = TRUE]]

\* Instant butterflies: an open exit beside the agent, a blocked butterfly below the exit.
\* "3|3|0|0|8|2|2|17|19|2|19|2"
LevelExitButterfly ==
    [board_str |->
        <<"3", "|", "3", "|", "0", "|", "0", "|", "8", "|", "2", "|", "2",
        "|", "1", "7", "|", "1", "9", "|", "2", "|", "1", "9", "|", "2">>,
     params |-> [DefaultParams EXCEPT !.butterfly_move_ver = kInstant]]

\* With gravity: falling diamonds above a bomb and a falling bomb, a falling
\* stone above a bomb.
\* "4|4|0|6|1|19|4|41|1|19|41|6|19|19|19|42|19|0|19"
LevelDiamondBomb ==
    [board_str |->
        <<"4", "|", "4", "|", "0", "|", "6", "|", "1", "|", "1", "9", "|",
        "4", "|", "4", "1", "|", "1", "|", "1", "9", "|", "4", "1", "|",
        "6", "|", "1", "9", "|", "1", "9", "|", "1", "9", "|", "4", "2",
        "|", "1", "9", "|", "0", "|", "1", "9">>,
     params |-> [DefaultParams EXCEPT !.gravity = TRUE]]

\* With gravity and magic_wall_steps = 2: a falling diamond above a dormant
\* magic wall with an empty cell under it.
\* "3|3|0|6|19|0|20|19|2|1|19|19"
LevelMagicDiamond ==
    [board_str |->
        <<"3", "|", "3", "|", "0", "|", "6", "|", "1", "9", "|", "0", "|",
        "2", "0", "|", "1", "9", "|", "2", "|", "1", "|", "1", "9", "|",
        "1", "9">>,
     params |-> [DefaultParams EXCEPT !.gravity = TRUE, !.magic_wall_steps = 2]]

\* Instant butterflies: a firefly beside the agent, a blocked butterfly in the
\* top right corner, one cell away from the firefly.
\* "3|4|0|0|10|2|14|2|19|19|19|19|19|19|19"
LevelFireflyButterfly ==
    [board_str |->
        <<"3", "|", "4", "|", "0", "|", "0", "|", "1", "0", "|", "2", "|",
        "1", "4", "|", "2", "|", "1", "9", "|", "1", "9", "|", "1", "9",
        "|", "1", "9", "|", "1", "9", "|", "1", "9", "|", "1", "9">>,
     params |-> [DefaultParams EXCEPT !.butterfly_move_ver = kInstant]]

\* Without gravity: a stone beside the agent, an empty column behind the stone.
\* "3|3|0|0|3|1|2|2|1|19|19|1"
LevelPushNoGravity ==
    [board_str |->
        <<"3", "|", "3", "|", "0", "|", "0", "|", "3", "|", "1", "|", "2",
        "|", "2", "|", "1", "|", "1", "9", "|", "1", "9", "|", "1">>,
     params |-> DefaultParams]

\* An open gate between the agent and an open exit, and a way round the gate.
\* "3|3|0|0|28|8|2|2|2|19|19|19"
LevelGateExit ==
    [board_str |->
        <<"3", "|", "3", "|", "0", "|", "0", "|", "2", "8", "|", "8", "|",
        "2", "|", "2", "|", "2", "|", "1", "9", "|", "1", "9", "|", "1",
        "9">>,
     params |-> DefaultParams]

Levels ==
    <<LevelExit,
      LevelStoneGate,
      LevelFirefly,
      LevelButterflyInstant,
      LevelButterflyWrap,
      LevelConvert,
      LevelBlob,
      LevelBlobEnclosed,
      LevelOrange,
      LevelMagic,
      LevelKeyGate,
      LevelPushNutBomb,
      LevelStoneAboveAgent,
      LevelExitButterfly,
      LevelDiamondBomb,
      LevelMagicDiamond,
      LevelFireflyButterfly,
      LevelPushNoGravity,
      LevelGateExit>>

\* The parse of each level (the same in either build), and the grid sizes
\* that occur.
ParsedLevels ==
    [l \in 1..Len(Levels) |-> parse_board_str(Levels[l].board_str, FALSE)]

LevelFlatSizes == {9, 12, 16}

(***************************************************************************)
(* Grid primitives.  A game state s is a record of the fields of           *)
(* BoulderDashGameState; grid and has_updated are functions on the flat    *)
(* indices 0 .. rows*cols-1.  Two further fields record an access outside  *)
(* the grid vector, which is undefined behaviour: `ub` is set when a tick  *)
(* makes such an access, and `garbage` is the value a read outside the     *)
(* vector yields (chosen by the environment, see Next).  Two more fields   *)
(* record what the tick did: `log` is the sequence of its events, each a   *)
(* tuple <<operation, flat index, kind before, kind after>>, for the cells *)
(* the scan dispatched ("UpdateCell"), the cell writes ("MoveItem",        *)
(* "SetItem"), the invocations of Explode ("Explode") and the advances of  *)
(* random_state ("xorshift64"); `after_agent` is the game state between    *)
(* the agent step and the scan.                                            *)
(***************************************************************************)
FlatSize(s) == s.rows * s.cols

InRange(s, index) == index >= 0 /\ index < FlatSize(s)

\* The values of to_local_hash for the grid sizes of the levels, the kinds and
\* the indices in and next to the grid.  (f @@ <<>> is f: with it the table is
\* tabulated once instead of being recomputed at every use.)
LocalHashTable ==
    [flat_size \in LevelFlatSizes |->
        [el \in kNull..(kNumHiddenCellType - 1) |->
            [offset \in (0 - flat_size)..(2 * flat_size) |->
                to_local_hash(flat_size, el, offset)] @@ <<>>] @@ <<>>] @@ <<>>

LocalHash(s, el, offset) == LocalHashTable[FlatSize(s)][el][offset]

IndexFromDirection(s, index, direction) ==
    CASE direction = kNoop      -> index
      [] direction = kUp        -> index - s.cols
      [] direction = kRight     -> index + 1
      [] direction = kDown      -> index + s.cols
      [] direction = kLeft      -> index - 1
      [] direction = kUpRight   -> index - s.cols + 1
      [] direction = kDownRight -> index + s.cols + 1
      [] direction = kUpLeft    -> index - s.cols - 1
      [] direction = kDownLeft  -> index + s.cols - 1

InBoundsAt(s, col, row, offsets) ==
    /\ col + offsets[1] >= 0 /\ col + offsets[1] < s.cols
    /\ row + offsets[2] >= 0 /\ row + offsets[2] < s.rows

InBounds(s, index, direction) ==
    InBoundsAt(s, index % s.cols, (index - (index % s.cols)) \div s.cols,
               kDirectionOffsets(direction))

\* The kind at a flat index; a read outside the vector yields garbage.
GridAt(s, index) == IF InRange(s, index) THEN s.grid[index] ELSE s.garbage

GetItem(s, index, direction) == GridAt(s, IndexFromDirection(s, index, direction))

IsType(s, index, element, direction) ==
    InBounds(s, index, direction) /\ GetItem(s, index, direction) = element

HasProperty(s, index, property, direction) ==
    InBounds(s, index, direction)
    /\ property \in ElementProperties(GetItem(s, index, direction))

\* A variant of MoveItemTo in which has_updated is not set at new_index.
MoveItemToUnmarked(s, index, new_index) ==
    [s EXCEPT
        !.hash = XorWord(XorWord(XorWord(XorWord(@,
                    LocalHash(s, GridAt(s, new_index), new_index)),
                    LocalHash(s, s.grid[index], new_index)),
                    LocalHash(s, s.grid[index], index)),
                    LocalHash(s, kEmpty, index)),
        !.grid = IF InRange(s, new_index)
                 THEN [@ EXCEPT ![new_index] = s.grid[index], ![index] = kEmpty]
                 ELSE [@ EXCEPT ![index] = kEmpty],
        !.ub = @ \/ ~InRange(s, new_index),
        !.log = Append(Append(@,
                    <<"MoveItem", new_index, GridAt(s, new_index), s.grid[index]>>),
                    <<"MoveItem", index, s.grid[index], kEmpty>>)]

\* MoveItem from index to new_index.  In the order of the code: the hash
\* loses the old kind at new_index and gains the moved kind there, loses the
\* moved kind at index and gains kEmpty there.  A write outside the vector
\* leaves the grid as it is and is recorded in ub.
MoveItemTo(s, index, new_index) ==
    [s EXCEPT
        !.hash = XorWord(XorWord(XorWord(XorWord(@,
                    LocalHash(s, GridAt(s, new_index), new_index)),
                    LocalHash(s, s.grid[index], new_index)),
                    LocalHash(s, s.grid[index], index)),
                    LocalHash(s, kEmpty, index)),
        !.grid = IF InRange(s, new_index)
                 THEN [@ EXCEPT ![new_index] = s.grid[index], ![index] = kEmpty]
                 ELSE [@ EXCEPT ![index] = kEmpty],
        !.has_updated = IF InRange(s, new_index)
                        THEN [@ EXCEPT ![new_index] = TRUE]
                        ELSE @,
        !.ub = @ \/ ~InRange(s, new_index),
        !.log = Append(Append(@,
                    <<"MoveItem", new_index, GridAt(s, new_index), s.grid[index]>>),
                    <<"MoveItem", index, s.grid[index], kEmpty>>)]

MoveItem(s, index, direction) ==
    MoveItemTo(s, index, IndexFromDirection(s, index, direction))

\* A variant of SetItemAt in which has_updated is not set at new_index.
SetItemAtUnmarked(s, new_index, element) ==
    [s EXCEPT
        !.hash = XorWord(XorWord(@,
                    LocalHash(s, GridAt(s, new_index), new_index)),
                    LocalHash(s, element, new_index)),
        !.grid = IF InRange(s, new_index)
                 THEN [@ EXCEPT ![new_index] = element]
                 ELSE @,
        !.ub = @ \/ ~InRange(s, new_index),
        !.log = Append(@, <<"SetItem", new_index, GridAt(s, new_index), element>>)]

SetItemAt(s, new_index, element) ==
    [s EXCEPT
        !.hash = XorWord(XorWord(@,
                    LocalHash(s, GridAt(s, new_index), new_index)),
                    LocalHash(s, element, new_index)),
        !.grid = IF InRange(s, new_index)
                 THEN [@ EXCEPT ![new_index] = element]
                 ELSE @,
        !.has_updated = IF InRange(s, new_index)
                        THEN [@ EXCEPT ![new_index] = TRUE]
                        ELSE @,
        !.ub = @ \/ ~InRange(s, new_index),
        !.log = Append(@, <<"SetItem", new_index, GridAt(s, new_index), element>>)]

SetItem(s, index, element, direction) ==
    SetItemAt(s, IndexFromDirection(s, index, direction), element)

IsTypeAdjacent(s, index, element) ==
    \/ IsType(s, index, element, kUp)
    \/ IsType(s, index, element, kLeft)
    \/ IsType(s, index, element, kDown)
    \/ IsType(s, index, element, kRight)

CanRollLeft(s, index) ==
    /\ HasProperty(s, index, kRounded, kDown)
    /\ IsType(s, index, kEmpty, kLeft)
    /\ IsType(s, index, kEmpty, kDownLeft)

CanRollRight(s, index) ==
    /\ HasProperty(s, index, kRounded, kDown)
    /\ IsType(s, index, kEmpty, kRight)
    /\ IsType(s, index, kEmpty, kDownRight)

RollLeft(s, index, element) ==
    MoveItem(SetItem(s, index, element, kNoop), index, kLeft)

RollRight(s, index, element) ==
    MoveItem(SetItem(s, index, element, kNoop), index, kRight)

\* A variant of SetAgentIdx in which the assignment to agent_idx is forgotten.
SetAgentIdxForgotten(s, index) == s

SetAgentIdx(s, index) == [s EXCEPT !.agent_idx = index]

\* Push with new_index and next_index, the cells one and two steps away.
PushTo(s, index, new_index, next_index, stationary, falling, direction) ==
    IF IsType(s, new_index, kEmpty, direction)
    THEN SetAgentIdx(
            MoveItem(
                SetItem(MoveItem(s, new_index, direction),
                        next_index,
                        IF IsType(s, next_index, kEmpty, kDown)
                        THEN falling ELSE stationary,
                        kNoop),
                index, direction),
            IndexFromDirection(s, index, direction))
    ELSE s

\* A variant of Push in which the pushed object always becomes its resting
\* variant.
PushAsResting(s, index, stationary, falling, direction) ==
    PushTo(s, index,
           IndexFromDirection(s, index, direction),
           IndexFromDirection(s, IndexFromDirection(s, index, direction), direction),
           stationary, stationary, direction)

Push(s, index, stationary, falling, direction) ==
    PushTo(s, index,
           IndexFromDirection(s, index, direction),
           IndexFromDirection(s, IndexFromDirection(s, index, direction), direction),
           stationary, falling, direction)

\* A variant of MoveThroughMagic in which magic_active is set only when the
\* object passes.
MoveThroughMagicLatchOnPass(s, index, element) ==
    IF s.magic_wall_steps <= 0 THEN s
    ELSE IF IsType(s, IndexFromDirection(s, IndexFromDirection(s, index, kDown), kDown),
                   kEmpty, kNoop)
    THEN SetItem(SetItem([s EXCEPT !.magic_active = TRUE], index, kEmpty, kNoop),
                 IndexFromDirection(s, IndexFromDirection(s, index, kDown), kDown),
                 element, kNoop)
    ELSE s

\* A variant of MoveThroughMagic in which the object is removed even when the
\* cell under the wall is not Empty.
MoveThroughMagicConsuming(s, index, element) ==
    IF s.magic_wall_steps <= 0 THEN s
    ELSE IF IsType(s, IndexFromDirection(s, IndexFromDirection(s, index, kDown), kDown),
                   kEmpty, kNoop)
    THEN SetItem(SetItem([s EXCEPT !.magic_active = TRUE], index, kEmpty, kNoop),
                 IndexFromDirection(s, IndexFromDirection(s, index, kDown), kDown),
                 element, kNoop)
    ELSE SetItem([s EXCEPT !.magic_active = TRUE], index, kEmpty, kNoop)

MoveThroughMagic(s, index, element) ==
    IF s.magic_wall_steps <= 0 THEN s
    ELSE IF IsType(s, IndexFromDirection(s, IndexFromDirection(s, index, kDown), kDown),
                   kEmpty, kNoop)
    THEN SetItem(SetItem([s EXCEPT !.magic_active = TRUE], index, kEmpty, kNoop),
                 IndexFromDirection(s, IndexFromDirection(s, index, kDown), kDown),
                 element, kNoop)
    ELSE [s EXCEPT !.magic_active = TRUE]

\* is_agent_alive = false when the cell at index holds the agent.
\* A variant of KillIfAgent that leaves is_agent_alive as it is.
KillIfAgentSpared(s, index) == s

KillIfAgent(s, index) ==
    IF GridAt(s, index) = kAgent THEN [s EXCEPT !.is_agent_alive = FALSE] ELSE s

RECURSIVE Explode(_, _, _, _)
RECURSIVE ExplodeDirections(_, _, _, _)

\* The loop of Explode over the directions dir_index .. kNumDirections-1.
\* In the Consumable branch the agent test reads the cell after SetItem.
ExplodeDirections(s, new_index, ex, dir_index) ==
    IF dir_index >= kNumDirections THEN s
    ELSE IF dir_index = kNoop \/ ~InBounds(s, new_index, dir_index)
    THEN ExplodeDirections(s, new_index, ex, dir_index + 1)
    ELSE IF HasProperty(s, new_index, kCanExplode, dir_index)
    THEN ExplodeDirections(Explode(s, new_index, ex, dir_index),
                           new_index, ex, dir_index + 1)
    ELSE IF HasProperty(s, new_index, kConsumable, dir_index)
    THEN ExplodeDirections(
            KillIfAgent(SetItem(s, new_index, ex, dir_index),
                        IndexFromDirection(s, new_index, dir_index)),
            new_index, ex, dir_index + 1)
    ELSE ExplodeDirections(s, new_index, ex, dir_index + 1)

\* A variant of ExplodeAt in which the invocation on a target is repeated
\* rows*cols + 1 times.
ExplodeAtRepeated(s, new_index, element) ==
    ExplodeDirections(SetItemAt(KillIfAgent([s EXCEPT !.log = @ \o
                                    [j \in 1..(FlatSize(s) + 1) |->
                                        <<"Explode", new_index, GridAt(s, new_index), element>>]],
                                             new_index),
                                new_index, element),
                      new_index,
                      kElementToExplosion(GridAt(s, new_index)),
                      0)

ExplodeAt(s, new_index, element) ==
    ExplodeDirections(SetItemAt(KillIfAgent([s EXCEPT !.log = Append(@,
                                    <<"Explode", new_index, GridAt(s, new_index), element>>)],
                                             new_index),
                                new_index, element),
                      new_index,
                      kElementToExplosion(GridAt(s, new_index)),
                      0)

Explode(s, index, element, direction) ==
    ExplodeAt(s, IndexFromDirection(s, index, direction), element)

(***************************************************************************)
(* Element update rules                                                    *)
(***************************************************************************)
OrReward(s, code) == [s EXCEPT !.reward_signal = @ \cup code]

\* A variant of UpdateStoneFalling in which the stone that cracks a nut is
\* removed from its cell (and that knows no rule but fall, crack and rest).
UpdateStoneFallingRemoved(s, index) ==
    IF IsType(s, index, kEmpty, kDown) THEN MoveItem(s, index, kDown)
    ELSE IF IsType(s, index, kNut, kDown)
    THEN OrReward(SetItem(SetItem(s, index, kEmpty, kNoop), index, kDiamond, kDown),
                  kRewardNutToDiamond)
    ELSE SetItem(s, index, kStone, kNoop)

UpdateStoneFalling(s, index) ==
    IF IsType(s, index, kEmpty, kDown)
    THEN MoveItem(s, index, kDown)
    ELSE IF s.butterfly_explosion_ver = kConvert
            /\ IsButterfly(GetItem(s, index, kDown))
    THEN \* GetItem is not guarded by InBounds here: in the bottom row it
         \* reads, and then writes, outside the vector.
         OrReward(SetItem(SetItem(s, index, kEmpty, kNoop), index, kDiamond, kDown),
                  kRewardButterflyToDiamond)
    ELSE LET s0 == IF s.butterfly_explosion_ver = kConvert
                      /\ ~InRange(s, IndexFromDirection(s, index, kDown))
                   THEN [s EXCEPT !.ub = TRUE]
                   ELSE s
         IN
         IF HasProperty(s0, index, kCanExplode, kDown)
         THEN Explode(s0, index, kElementToExplosion(GetItem(s0, index, kDown)), kDown)
         ELSE IF IsType(s0, index, kWallMagicOn, kDown)
                 \/ IsType(s0, index, kWallMagicDormant, kDown)
         THEN MoveThroughMagic(s0, index, kMagicWallConversion(GetItem(s0, index, kNoop)))
         ELSE IF IsType(s0, index, kNut, kDown)
         THEN OrReward(SetItem(s0, index, kDiamond, kDown), kRewardNutToDiamond)
         ELSE IF IsType(s0, index, kBomb, kDown)
         THEN Explode(s0, index, kElementToExplosion(GetItem(s0, index, kNoop)), kNoop)
         ELSE IF CanRollLeft(s0, index) THEN RollLeft(s0, index, kStoneFalling)
         ELSE IF CanRollRight(s0, index) THEN RollRight(s0, index, kStoneFalling)
         ELSE SetItem(s0, index, kStone, kNoop)

\* A variant of UpdateStone in which a resting stone never starts to fall.
UpdateStoneAtRest(s, index) == s

UpdateStone(s, index) ==
    IF ~s.gravity THEN s
    ELSE IF IsType(s, index, kEmpty, kDown)
    THEN UpdateStoneFalling(SetItem(s, index, kStoneFalling, kNoop), index)
    ELSE IF CanRollLeft(s, index) THEN RollLeft(s, index, kStoneFalling)
    ELSE IF CanRollRight(s, index) THEN RollRight(s, index, kStoneFalling)
    ELSE s

\* A variant of UpdateDiamondFalling without the exclusion of bombs.
UpdateDiamondFallingOnBomb(s, index) ==
    IF IsType(s, index, kEmpty, kDown)
    THEN MoveItem(s, index, kDown)
    ELSE IF HasProperty(s, index, kCanExplode, kDown)
    THEN Explode(s, index, kElementToExplosion(GetItem(s, index, kDown)), kDown)
    ELSE IF IsType(s, index, kWallMagicOn, kDown)
            \/ IsType(s, index, kWallMagicDormant, kDown)
    THEN MoveThroughMagic(s, index, kMagicWallConversion(GetItem(s, index, kNoop)))
    ELSE IF CanRollLeft(s, index) THEN RollLeft(s, index, kDiamondFalling)
    ELSE IF CanRollRight(s, index) THEN RollRight(s, index, kDiamondFalling)
    ELSE SetItem(s, index, kDiamond, kNoop)

UpdateDiamondFalling(s, index) ==
    IF IsType(s, index, kEmpty, kDown)
    THEN MoveItem(s, index, kDown)
    ELSE IF HasProperty(s, index, kCanExplode, kDown)
            /\ ~IsType(s, index, kBomb, kDown)
            /\ ~IsType(s, index, kBombFalling, kDown)
    THEN Explode(s, index, kElementToExplosion(GetItem(s, index, kDown)), kDown)
    ELSE IF IsType(s, index, kWallMagicOn, kDown)
            \/ IsType(s, index, kWallMagicDormant, kDown)
    THEN MoveThroughMagic(s, index, kMagicWallConversion(GetItem(s, index, kNoop)))
    ELSE IF CanRollLeft(s, index) THEN RollLeft(s, index, kDiamondFalling)
    ELSE IF CanRollRight(s, index) THEN RollRight(s, index, kDiamondFalling)
    ELSE SetItem(s, index, kDiamond, kNoop)

UpdateDiamond(s, index) ==
    IF ~s.gravity THEN s
    ELSE IF IsType(s, index, kEmpty, kDown)
    THEN UpdateDiamondFalling(SetItem(s, index, kDiamondFalling, kNoop), index)
    ELSE IF CanRollLeft(s, index) THEN RollLeft(s, index, kDiamondFalling)
    ELSE IF CanRollRight(s, index) THEN RollRight(s, index, kDiamondFalling)
    ELSE s

UpdateNutFalling(s, index) ==
    IF IsType(s, index, kEmpty, kDown)
    THEN MoveItem(s, index, kDown)
    ELSE IF CanRollLeft(s, index) THEN RollLeft(s, index, kNutFalling)
    ELSE IF CanRollRight(s, index) THEN RollRight(s, index, kNutFalling)
    ELSE SetItem(s, index, kNut, kNoop)

UpdateNut(s, index) ==
    IF ~s.gravity THEN s
    ELSE IF IsType(s, index, kEmpty, kDown)
    THEN UpdateNutFalling(SetItem(s, index, kNutFalling, kNoop), index)
    ELSE IF CanRollLeft(s, index) THEN RollLeft(s, index, kNutFalling)
    ELSE IF CanRollRight(s, index) THEN RollRight(s, index, kNutFalling)
    ELSE s

UpdateBombFalling(s, index) ==
    IF IsType(s, index, kEmpty, kDown)
    THEN MoveItem(s, index, kDown)
    ELSE IF CanRollLeft(s, index) THEN RollLeft(s, index, kBombFalling)
    ELSE IF CanRollRight(s, index) THEN RollRight(s, index, kBombFalling)
    ELSE IF ~s.disable_explosions
    THEN Explode(s, index, kElementToExplosion(GetItem(s, index, kNoop)), kNoop)
    ELSE s

UpdateBomb(s, index) ==
    IF ~s.gravity THEN s
    ELSE IF IsType(s, index, kEmpty, kDown)
    THEN UpdateBombFalling(SetItem(s, index, kBombFalling, kNoop), index)
    ELSE IF CanRollLeft(s, index) THEN RollLeft(s, index, kBomb)
    ELSE IF CanRollRight(s, index) THEN RollRight(s, index, kBomb)
    ELSE s

\* A variant of UpdateExit in which the exit opens whatever the number of
\* gems collected.
UpdateExitUnconditional(s, index) ==
    SetItem(s, index, kExitOpen, kNoop)

\* A variant of UpdateExit in which the exit opens only when more gems than
\* required are collected.
UpdateExitWhenExceeded(s, index) ==
    IF s.gems_collected > s.gems_required
    THEN SetItem(s, index, kExitOpen, kNoop)
    ELSE s

UpdateExit(s, index) ==
    IF s.gems_collected >= s.gems_required
    THEN SetItem(s, index, kExitOpen, kNoop)
    ELSE s

\* OpenGate: the loop over the indices index .. rows*cols-1.
RECURSIVE OpenGateFrom(_, _, _)
OpenGateFrom(s, element, index) ==
    IF index >= FlatSize(s) THEN s
    ELSE IF s.grid[index] = element
    THEN OpenGateFrom(SetItem(s, index, kGateOpenMap(GetItem(s, index, kNoop)), kNoop),
                      element, index + 1)
    ELSE OpenGateFrom(s, element, index + 1)

\* A variant of OpenGate that opens no gate.
OpenGateNever(s, element) == s

OpenGate(s, element) == OpenGateFrom(s, element, 0)

\* A variant of CollectDiamond in which the diamond is counted twice.
CollectDiamondTwice(s) ==
    OrReward([s EXCEPT !.gems_collected = @ + 2], kRewardCollectDiamond)

\* ++gems_collected with the CollectDiamond reward.
CollectDiamond(s) ==
    OrReward([s EXCEPT !.gems_collected = @ + 1], kRewardCollectDiamond)

\* UpdateAgent, open gate branch: the item behind the gate is collected.
CollectBehindGate(s, index_gate, direction) ==
    IF IsType(s, index_gate, kDiamond, direction)
       \/ IsType(s, index_gate, kDiamondFalling, direction)
    THEN CollectDiamond(s)
    ELSE IF IsKey(GetItem(s, index_gate, direction))
    THEN OrReward(OrReward(OpenGate(s, kKeyToGate(GetItem(s, index_gate, direction))),
                           kRewardCollectKey),
                  kKeyToSignal(GetItem(s, index_gate, direction)))
    ELSE s

\* UpdateAgent, open gate branch: the rewards for walking through the gate.
WalkedThroughGate(s, index_gate) ==
    OrReward(OrReward(s, kRewardWalkThroughGate),
             kGateToSignal(GetItem(s, index_gate, kNoop)))

\* A variant of WalkThroughGate in which the diamond or key behind the gate
\* is not collected.
WalkThroughGateWithoutCollecting(s, index, index_gate, direction) ==
    WalkedThroughGate(
        SetAgentIdx(
            SetItem(SetItem(s, index_gate, kAgent, direction), index, kEmpty, kNoop),
            IndexFromDirection(s, index_gate, direction)),
        index_gate)

\* UpdateAgent, open gate branch with a traversable cell behind the gate.
WalkThroughGate(s, index, index_gate, direction) ==
    WalkedThroughGate(
        SetAgentIdx(
            SetItem(SetItem(CollectBehindGate(s, index_gate, direction),
                            index_gate, kAgent, direction),
                    index, kEmpty, kNoop),
            IndexFromDirection(s, index_gate, direction)),
        index_gate)

\* A variant of UpdateAgent in which the agent moves into walls, and into
\* nothing else.
UpdateAgentThroughWalls(s, index, direction) ==
    IF IsType(s, index, kWallBrick, direction) \/ IsType(s, index, kWallSteel, direction)
    THEN SetAgentIdx(MoveItem(s, index, direction),
                     IndexFromDirection(s, index, direction))
    ELSE s

UpdateAgent(s, index, direction) ==
    IF ~InBounds(s, index, direction) THEN s
    ELSE IF IsType(s, index, kEmpty, direction) \/ IsType(s, index, kDirt, direction)
    THEN SetAgentIdx(MoveItem(s, index, direction),
                     IndexFromDirection(s, index, direction))
    ELSE IF IsType(s, index, kDiamond, direction)
            \/ IsType(s, index, kDiamondFalling, direction)
    THEN SetAgentIdx(MoveItem(CollectDiamond(s), index, direction),
                     IndexFromDirection(s, index, direction))
    ELSE IF IsDirectionHorz(direction) /\ HasProperty(s, index, kPushable, direction)
    THEN Push(s, index, GetItem(s, index, direction),
              kElToFalling(GetItem(s, index, direction)), direction)
    ELSE IF IsKey(GetItem(s, index, direction))
    THEN OrReward(
            OrReward(
                SetAgentIdx(
                    MoveItem(OpenGate(s, kKeyToGate(GetItem(s, index, direction))),
                             index, direction),
                    IndexFromDirection(s, index, direction)),
                kRewardCollectKey),
            kKeyToSignal(GetItem(s, index, direction)))
    ELSE IF IsOpenGate(GetItem(s, index, direction))
    THEN IF HasProperty(s, IndexFromDirection(s, index, direction),
                        kTraversable, direction)
         THEN WalkThroughGate(s, index, IndexFromDirection(s, index, direction),
                              direction)
         ELSE s
    ELSE IF IsType(s, index, kExitOpen, direction)
    THEN OrReward(
            [SetAgentIdx(
                SetItem(MoveItem(s, index, direction), index, kAgentInExit, direction),
                IndexFromDirection(s, index, direction))
             EXCEPT !.is_agent_in_exit = TRUE],
            kRewardWalkThroughExit)
    ELSE s

UpdateFirefly(s, index, direction) ==
    LET new_dir == kRotateLeft(direction)
    IN  IF IsTypeAdjacent(s, index, kAgent) \/ IsTypeAdjacent(s, index, kBlob)
        THEN Explode(s, index, kElementToExplosion(GetItem(s, index, kNoop)), kNoop)
        ELSE IF IsType(s, index, kEmpty, new_dir)
        THEN MoveItem(SetItem(s, index, kDirectionToFirefly(new_dir), kNoop),
                      index, new_dir)
        ELSE IF IsType(s, index, kEmpty, direction)
        THEN MoveItem(SetItem(s, index, kDirectionToFirefly(direction), kNoop),
                      index, direction)
        ELSE SetItem(s, index, kDirectionToFirefly(kRotateRight(direction)), kNoop)

UpdateButterfly(s, index, direction) ==
    LET new_dir == kRotateRight(direction)
    IN  IF IsTypeAdjacent(s, index, kAgent) \/ IsTypeAdjacent(s, index, kBlob)
        THEN Explode(s, index, kElementToExplosion(GetItem(s, index, kNoop)), kNoop)
        ELSE IF IsType(s, index, kEmpty, new_dir)
        THEN MoveItem(SetItem(s, index, kDirectionToButterfly(new_dir), kNoop),
                      index, new_dir)
        ELSE IF IsType(s, index, kEmpty, direction)
        THEN MoveItem(SetItem(s, index, kDirectionToButterfly(direction), kNoop),
                      index, direction)
        ELSE LET s1 == SetItem(s, index,
                               kDirectionToButterfly(kRotateLeft(direction)), kNoop)
             IN  IF s.butterfly_move_ver = kInstant
                 THEN \* not guarded by IsType or InBounds
                      MoveItem(s1, index, kRotateLeft(direction))
                 ELSE s1

\* The open directions of UpdateOrange, in the order of the loop.
RECURSIVE OpenDirs(_, _, _)
OpenDirs(s, index, dir_index) ==
    IF dir_index >= kNumActions THEN <<>>
    ELSE IF dir_index # kNoop /\ InBounds(s, index, dir_index)
            /\ IsType(s, index, kEmpty, dir_index)
    THEN <<dir_index>> \o OpenDirs(s, index, dir_index + 1)
    ELSE OpenDirs(s, index, dir_index + 1)

\* A variant of UpdateOrange in which an orange that moves on also draws from
\* xorshift64.
UpdateOrangeDrawsOnMove(s, index, direction) ==
    IF IsType(s, index, kEmpty, direction)
    THEN MoveItem([s EXCEPT !.random_state = xorshift64(@)], index, direction)
    ELSE IF IsTypeAdjacent(s, index, kAgent)
    THEN Explode(s, index, kElementToExplosion(GetItem(s, index, kNoop)), kNoop)
    ELSE LET open_dirs == OpenDirs(s, index, 0)
         IN  IF open_dirs # <<>>
             THEN LET r == xorshift64(s.random_state)
                      new_dir == open_dirs[ModSmall(r, Len(open_dirs)) + 1]
                  IN  SetItem([s EXCEPT !.random_state = r,
                                        !.log = Append(@,
                                            <<"xorshift64", index, s.grid[index], s.grid[index]>>)],
                              index,
                              kDirectionToOrange(new_dir), kNoop)
             ELSE s

UpdateOrange(s, index, direction) ==
    IF IsType(s, index, kEmpty, direction)
    THEN MoveItem(s, index, direction)
    ELSE IF IsTypeAdjacent(s, index, kAgent)
    THEN Explode(s, index, kElementToExplosion(GetItem(s, index, kNoop)), kNoop)
    ELSE LET open_dirs == OpenDirs(s, index, 0)
         IN  IF open_dirs # <<>>
             THEN LET r == xorshift64(s.random_state)
                      new_dir == open_dirs[ModSmall(r, Len(open_dirs)) + 1]
                  IN  SetItem([s EXCEPT !.random_state = r,
                                        !.log = Append(@,
                                            <<"xorshift64", index, s.grid[index], s.grid[index]>>)],
                              index,
                              kDirectionToOrange(new_dir), kNoop)
             ELSE s

UpdateMagicWall(s, index) ==
    IF s.magic_active THEN SetItem(s, index, kWallMagicOn, kNoop)
    ELSE IF s.magic_wall_steps > 0 THEN SetItem(s, index, kWallMagicDormant, kNoop)
    ELSE SetItem(s, index, kWallMagicExpired, kNoop)

BASE_CHANCE == 256

\* A variant of UpdateBlob in which a Blob cell is counted before blob_swap
\* is looked at.
UpdateBlobCountedFirst(s, index) ==
    IF s.blob_swap # kNull
    THEN SetItem([s EXCEPT !.blob_size = @ + 1], index, s.blob_swap, kNoop)
    ELSE LET s1 == [s EXCEPT !.blob_size = @ + 1]
             s2 == IF IsTypeAdjacent(s1, index, kEmpty) \/ IsTypeAdjacent(s1, index, kDirt)
                   THEN [s1 EXCEPT !.blob_enclosed = FALSE]
                   ELSE s1
             r1 == xorshift64(s.random_state)
             r2 == xorshift64(r1)
             will_grow == ModSmall(r1, BASE_CHANCE) < s.blob_chance
             grow_dir  == ModSmall(r2, kNumActions)
             s3 == [s2 EXCEPT !.random_state = r2,
                              !.log = Append(Append(@,
                                    <<"xorshift64", index, kBlob, kBlob>>),
                                    <<"xorshift64", index, kBlob, kBlob>>)]
         IN  IF will_grow /\ (IsType(s3, index, kEmpty, grow_dir)
                              \/ IsType(s3, index, kDirt, grow_dir))
             THEN SetItem(s3, index, kBlob, grow_dir)
             ELSE s3

UpdateBlob(s, index) ==
    IF s.blob_swap # kNull
    THEN SetItem(s, index, s.blob_swap, kNoop)
    ELSE LET s1 == [s EXCEPT !.blob_size = @ + 1]
             s2 == IF IsTypeAdjacent(s1, index, kEmpty) \/ IsTypeAdjacent(s1, index, kDirt)
                   THEN [s1 EXCEPT !.blob_enclosed = FALSE]
                   ELSE s1
             r1 == xorshift64(s.random_state)
             r2 == xorshift64(r1)
             will_grow == ModSmall(r1, BASE_CHANCE) < s.blob_chance
             grow_dir  == ModSmall(r2, kNumActions)
             s3 == [s2 EXCEPT !.random_state = r2,
                              !.log = Append(Append(@,
                                    <<"xorshift64", index, kBlob, kBlob>>),
                                    <<"xorshift64", index, kBlob, kBlob>>)]
         IN  IF will_grow /\ (IsType(s3, index, kEmpty, grow_dir)
                              \/ IsType(s3, index, kDirt, grow_dir))
             THEN SetItem(s3, index, kBlob, grow_dir)
             ELSE s3

UpdateExplosions(s, index) ==
    LET s1 == OrReward(s, kExplosionToReward(GetItem(s, index, kNoop)))
    IN  SetItem(s1, index, kExplosionToElement(GetItem(s1, index, kNoop)), kNoop)

(***************************************************************************)
(* Tick driver                                                             *)
(***************************************************************************)
\* A variant of StartScan in which the per-tick reset also clears
\* is_agent_in_exit and sets is_agent_alive.
StartScanResetsFlags(s) ==
    [s EXCEPT !.blob_size = 0,
              !.blob_enclosed = TRUE,
              !.reward_signal = {},
              !.is_agent_alive = TRUE,
              !.is_agent_in_exit = FALSE,
              !.has_updated = [i \in DOMAIN s.has_updated |-> FALSE] @@ <<>>]

\* A variant of StartScan that leaves reward_signal as the previous tick left
\* it.
StartScanKeepsReward(s) ==
    [s EXCEPT !.blob_size = 0,
              !.blob_enclosed = TRUE,
              !.has_updated = [i \in DOMAIN s.has_updated |-> FALSE] @@ <<>>]

\* (f @@ <<>> is f, evaluated once.)
StartScan(s) ==
    [s EXCEPT !.blob_size = 0,
              !.blob_enclosed = TRUE,
              !.reward_signal = {},
              !.has_updated = [i \in DOMAIN s.has_updated |-> FALSE] @@ <<>>]

\* A variant of EndScan in which the size of the blob is not compared with
\* blob_max_size.
EndScanWithoutSizeLatch(s) ==
    LET s1 == IF s.blob_swap = kNull /\ s.blob_enclosed
              THEN [s EXCEPT !.blob_swap = kDiamond]
              ELSE s
        s2 == IF s1.magic_active
              THEN [s1 EXCEPT !.magic_wall_steps =
                        IF @ - 1 > 0 THEN @ - 1 ELSE 0]
              ELSE s1
    IN  [s2 EXCEPT !.magic_active = @ /\ (s2.magic_wall_steps > 0)]

\* A variant of EndScan in which magic_wall_steps is not counted down.
EndScanWithoutCountdown(s) ==
    LET s1 == IF s.blob_swap = kNull
              THEN LET e == IF s.blob_enclosed
                            THEN [s EXCEPT !.blob_swap = kDiamond]
                            ELSE s
                   IN  IF e.blob_size > e.blob_max_size
                       THEN [e EXCEPT !.blob_swap = kStone]
                       ELSE e
              ELSE s
    IN  [s1 EXCEPT !.magic_active = @ /\ (s1.magic_wall_steps > 0)]

EndScan(s) ==
    LET s1 == IF s.blob_swap = kNull
              THEN LET e == IF s.blob_enclosed
                            THEN [s EXCEPT !.blob_swap = kDiamond]
                            ELSE s
                   IN  IF e.blob_size > e.blob_max_size
                       THEN [e EXCEPT !.blob_swap = kStone]
                       ELSE e
              ELSE s
        s2 == IF s1.magic_active
              THEN [s1 EXCEPT !.magic_wall_steps =
                        IF @ - 1 > 0 THEN @ - 1 ELSE 0]
              ELSE s1
    IN  [s2 EXCEPT !.magic_active = @ /\ (s2.magic_wall_steps > 0)]

\* The switch of apply_action on the kind of cell i.
UpdateCell(s, i) ==
    LET hidden_el == s.grid[i]
    IN  CASE hidden_el = kStone          -> UpdateStone(s, i)
          [] hidden_el = kStoneFalling   -> UpdateStoneFalling(s, i)
          [] hidden_el = kDiamond        -> UpdateDiamond(s, i)
          [] hidden_el = kDiamondFalling -> UpdateDiamondFalling(s, i)
          [] hidden_el = kNut            -> UpdateNut(s, i)
          [] hidden_el = kNutFalling     -> UpdateNutFalling(s, i)
          [] hidden_el = kBomb           -> UpdateBomb(s, i)
          [] hidden_el = kBombFalling    -> UpdateBombFalling(s, i)
          [] hidden_el = kExitClosed     -> UpdateExit(s, i)
          [] hidden_el = kBlob           -> UpdateBlob(s, i)
          [] OTHER ->
                IF IsButterfly(hidden_el)
                THEN UpdateButterfly(s, i, kButterflyToDirection(hidden_el))
                ELSE IF IsFirefly(hidden_el)
                THEN UpdateFirefly(s, i, kFireflyToDirection(hidden_el))
                ELSE IF IsOrange(hidden_el)
                THEN UpdateOrange(s, i, kOrangeToDirection(hidden_el))
                ELSE IF IsMagicWall(hidden_el) THEN UpdateMagicWall(s, i)
                ELSE IF IsExplosion(hidden_el) THEN UpdateExplosions(s, i)
                ELSE s

\* The loop of apply_action over the cells i .. rows*cols-1.
RECURSIVE ScanFrom(_, _)
ScanFrom(s, i) ==
    IF i >= FlatSize(s) THEN s
    ELSE IF s.has_updated[i] THEN ScanFrom(s, i + 1)
    ELSE ScanFrom(UpdateCell([s EXCEPT !.log = Append(@,
                                <<"UpdateCell", i, s.grid[i], s.grid[i]>>)], i),
                  i + 1)

action_to_direction(action) == action

\* The fields of BoulderDashGameState.
StateFields ==
    {"magic_wall_steps", "blob_max_size", "butterfly_explosion_ver",
     "butterfly_move_ver", "gems_collected", "magic_wall_steps_remaining",
     "blob_size", "rows", "cols", "agent_idx", "gems_required", "random_state",
     "reward_signal", "hash", "blob_chance", "gravity", "disable_explosions",
     "magic_active", "blob_enclosed", "is_agent_alive", "is_agent_in_exit",
     "blob_swap", "grid", "has_updated"}

\* The game state in the record s of a tick.
GameStateOf(s) == [f \in StateFields |-> s[f]]

\* The scan of apply_action, which follows the agent step.
Scan(s) == ScanFrom([s EXCEPT !.after_agent = GameStateOf(s)], 0)

\* A variant of Tick in which the scan runs before the agent step.
TickScanFirst(g, action, garbage) ==
    EndScan(UpdateAgent(Scan(StartScan([ub |-> FALSE, garbage |-> garbage,
                                        log |-> <<>>, after_agent |-> g] @@ g)),
                        g.agent_idx, action_to_direction(action)))

\* One tick on the game state g, with the record of accesses outside the
\* vector: `garbage` is what a read outside the grid vector yields during the
\* tick, and ub of the result tells whether the tick made such an access.
Tick(g, action, garbage) ==
    EndScan(Scan(UpdateAgent(StartScan([ub |-> FALSE, garbage |-> garbage,
                                        log |-> <<>>, after_agent |-> g] @@ g),
                             g.agent_idx, action_to_direction(action))))

\* The game state after apply_action(action).
apply_action(g, action, garbage) == GameStateOf(Tick(g, action, garbage))

is_terminal(g) == ~g.is_agent_alive \/ g.is_agent_in_exit

is_solution(g) == g.is_agent_in_exit

is_valid_hidden_element(element) ==
    element >= 0 /\ element < kNumVisibleCellType

\* get_indices and get_positions start with assert(is_valid_hidden_element):
\* in a build without NDEBUG a failed assert aborts the program, in a build
\* with NDEBUG (ndebug) the check is absent. The loop runs over
\* idx = 0 .. rows*cols - 1 in this order.
get_indices(g, element, ndebug) ==
    IF ~ndebug /\ ~is_valid_hidden_element(element)
    THEN [error |-> "assert", value |-> <<>>]
    ELSE [error |-> "none",
          value |-> SelectSeq([k \in 1..(g.rows * g.cols) |-> k - 1],
                              LAMBDA idx : g.grid[idx] = element)]

get_positions(g, element, ndebug) ==
    IF ~ndebug /\ ~is_valid_hidden_element(element)
    THEN [error |-> "assert", value |-> <<>>]
    ELSE LET found == SelectSeq([k \in 1..(g.rows * g.cols) |-> k - 1],
                                LAMBDA idx : g.grid[idx] = element)
         IN  [error |-> "none",
              value |-> [k \in 1..Len(found) |->
                            <<found[k] \div g.cols, found[k] % g.cols>>]]

(***************************************************************************)
(* Construction                                                            *)
(***************************************************************************)
\* The constructor's loop over the cells from i on, on the state s under
\* construction: hash ^= to_local_hash(flat_size, grid[i], i).
RECURSIVE InitialHash(_, _)
InitialHash(s, i) ==
    IF i >= s.rows * s.cols THEN s
    ELSE InitialHash([s EXCEPT !.hash = XorWord(@, to_local_hash(s.rows * s.cols,
                                                                 s.grid[i], i))],
                     i + 1)

\* BoulderDashGameState(board_str, params), for a board that parses.
NewGameState(parsed, params) ==
  InitialHash(
    [magic_wall_steps |-> params.magic_wall_steps,
     blob_max_size |->
        IF parsed.cols * parsed.rows >= 0
        THEN ((parsed.cols * parsed.rows) * params.blob_max_percentage[1])
                \div params.blob_max_percentage[2]
        ELSE 0 - (((0 - parsed.cols * parsed.rows) * params.blob_max_percentage[1])
                    \div params.blob_max_percentage[2]),
     butterfly_explosion_ver |-> params.butterfly_explosion_ver,
     butterfly_move_ver |-> params.butterfly_move_ver,
     gems_collected |-> 0,
     magic_wall_steps_remaining |-> 0,
     blob_size |-> 0,
     rows |-> parsed.rows,
     cols |-> parsed.cols,
     agent_idx |-> parsed.agent_idx,
     gems_required |-> parsed.gems_required,
     random_state |-> splitmix64(IntToWord(0)),
     reward_signal |-> {},
     hash |-> IntToWord(0),
     blob_chance |-> params.blob_chance % 256,
     gravity |-> params.gravity,
     disable_explosions |-> params.disable_explosions,
     magic_active |-> FALSE,
     blob_enclosed |-> TRUE,
     is_agent_alive |-> parsed.is_agent_alive,
     is_agent_in_exit |-> parsed.is_agent_in_exit,
     blob_swap |-> kNull,
     grid |-> parsed.grid,
     has_updated |-> parsed.has_updated],
    0)

\* What a failed construction leaves: no state.
NoGameState == <<>>

\* BoulderDashGameState(board_str, params) in a build with NDEBUG (ndebug) or
\* without: the failure and no state, or "none" and the state.  When the
\* board has fewer cells than rows * cols, the loop of the initial hash reads
\* grid[i] past the vector ("ub").
Construct(board_str, params, ndebug) ==
    LET parsed == parse_board_str(board_str, ndebug)
    IN  IF parsed.error # "none"
        THEN [error |-> parsed.error, state |-> NoGameState]
        ELSE IF parsed.rows * parsed.cols > Cardinality(DOMAIN parsed.grid)
        THEN [error |-> "ub", state |-> NoGameState]
        ELSE [error |-> "none", state |-> NewGameState(parsed, params)]

(***************************************************************************)
(* pack() and the constructor from an InternalState                        *)
(***************************************************************************)
\* The value of an integer converted to int8_t.
ToInt8(n) == ((n + 128) % 256) - 128

\* The value of an integer converted to uint8_t.
ToUint8(n) == n % 256

\* pack(): the InternalState of the game state g; the kinds are stored as
\* int8_t (to_underlying), blob_chance as uint8_t.
pack(g) ==
    [magic_wall_steps |-> g.magic_wall_steps,
     blob_max_size |-> g.blob_max_size,
     butterfly_explosion_ver |-> g.butterfly_explosion_ver,
     butterfly_move_ver |-> g.butterfly_move_ver,
     gems_collected |-> g.gems_collected,
     magic_wall_steps_remaining |-> g.magic_wall_steps_remaining,
     blob_size |-> g.blob_size,
     rows |-> g.rows,
     cols |-> g.cols,
     agent_idx |-> g.agent_idx,
     gems_required |-> g.gems_required,
     random_state |-> g.random_state,
     reward_signal |-> g.reward_signal,
     hash |-> g.hash,
     blob_chance |-> ToUint8(g.blob_chance),
     gravity |-> g.gravity,
     disable_explosions |-> g.disable_explosions,
     magic_active |-> g.magic_active,
     blob_enclosed |-> g.blob_enclosed,
     is_agent_alive |-> g.is_agent_alive,
     is_agent_in_exit |-> g.is_agent_in_exit,
     blob_swap |-> ToInt8(g.blob_swap),
     grid |-> [i \in DOMAIN g.grid |-> ToInt8(g.grid[i])],
     has_updated |-> g.has_updated]

\* A variant of FromInternalState in which has_updated is sized like the
\* grid but not copied.
FromInternalStateFreshFlags(internal_state) ==
    [magic_wall_steps |-> internal_state.magic_wall_steps,
     blob_max_size |-> internal_state.blob_max_size,
     butterfly_explosion_ver |-> internal_state.butterfly_explosion_ver,
     butterfly_move_ver |-> internal_state.butterfly_move_ver,
     gems_collected |-> internal_state.gems_collected,
     magic_wall_steps_remaining |-> internal_state.magic_wall_steps_remaining,
     blob_size |-> internal_state.blob_size,
     rows |-> internal_state.rows,
     cols |-> internal_state.cols,
     agent_idx |-> internal_state.agent_idx,
     gems_required |-> internal_state.gems_required,
     random_state |-> internal_state.random_state,
     reward_signal |-> internal_state.reward_signal,
     hash |-> internal_state.hash,
     blob_chance |-> internal_state.blob_chance,
     gravity |-> internal_state.gravity,
     disable_explosions |-> internal_state.disable_explosions,
     magic_active |-> internal_state.magic_active,
     blob_enclosed |-> internal_state.blob_enclosed,
     is_agent_alive |-> internal_state.is_agent_alive,
     is_agent_in_exit |-> internal_state.is_agent_in_exit,
     blob_swap |-> ToInt8(internal_state.blob_swap),
     grid |-> [i \in DOMAIN internal_state.grid |-> ToInt8(internal_state.grid[i])],
     has_updated |-> [i \in DOMAIN internal_state.has_updated |-> FALSE]]

\* BoulderDashGameState(InternalState &&): every field is taken from the
\* InternalState, the kinds by static_cast<HiddenCellType> of the int8_t.
FromInternalState(internal_state) ==
    [magic_wall_steps |-> internal_state.magic_wall_steps,
     blob_max_size |-> internal_state.blob_max_size,
     butterfly_explosion_ver |-> internal_state.butterfly_explosion_ver,
     butterfly_move_ver |-> internal_state.butterfly_move_ver,
     gems_collected |-> internal_state.gems_collected,
     magic_wall_steps_remaining |-> internal_state.magic_wall_steps_remaining,
     blob_size |-> internal_state.blob_size,
     rows |-> internal_state.rows,
     cols |-> internal_state.cols,
     agent_idx |-> internal_state.agent_idx,
     gems_required |-> internal_state.gems_required,
     random_state |-> internal_state.random_state,
     reward_signal |-> internal_state.reward_signal,
     hash |-> internal_state.hash,
     blob_chance |-> internal_state.blob_chance,
     gravity |-> internal_state.gravity,
     disable_explosions |-> internal_state.disable_explosions,
     magic_active |-> internal_state.magic_active,
     blob_enclosed |-> internal_state.blob_enclosed,
     is_agent_alive |-> internal_state.is_agent_alive,
     is_agent_in_exit |-> internal_state.is_agent_in_exit,
     blob_swap |-> ToInt8(internal_state.blob_swap),
     grid |-> [i \in DOMAIN internal_state.grid |-> ToInt8(internal_state.grid[i])],
     has_updated |-> internal_state.has_updated]

(***************************************************************************)
(* The state machine: a game state constructed from one of the levels and  *)
(* stepped by apply_action.                                                *)
(***************************************************************************)
VARIABLES
    state,          \* the BoulderDashGameState
    level,          \* the index in Levels of the level it was constructed from
    ticks,          \* the number of apply_action calls made
    terminal_ticks, \* the number of them made on a terminal state
    ub,             \* whether some tick accessed the grid vector out of its range
    last,           \* the last apply_action call: its action, the state it was
                    \* made on, the state after its agent step, and its events
    construction    \* the constructor call: its board_str, the build, the outcome

vars == <<state, level, ticks, terminal_ticks, ub, last, construction>>

MaxTicks == 5

\* The values a read outside the grid vector is taken to yield.
GarbageKinds == {kAgent, kEmpty, kButterflyUp}

Init ==
    \E l \in 1..Len(Levels) :
        /\ ParsedLevels[l].error = "none"
        /\ level = l
        /\ state = NewGameState(ParsedLevels[l], Levels[l].params)
        /\ ticks = 0
        /\ terminal_ticks = 0
        /\ ub = FALSE
        /\ last = [action |-> kNoop, before |-> state, after_agent |-> state,
                   log |-> <<>>]
        /\ construction = [board_str |-> Levels[l].board_str, ndebug |-> FALSE,
                           error |-> "none"]

\* The state and the record of the call after a tick that ended in tick.
Outcome(tick, action) ==
    /\ state' = GameStateOf(tick)
    /\ last' = [action |-> action, before |-> state,
                after_agent |-> tick.after_agent, log |-> tick.log]

\* The step to an outcome of a tick whose outcome is s when the reads outside
\* the grid vector yield kEmpty: that outcome, or when the tick made an access
\* outside the vector, the outcome with any of the garbage kinds.
StepFrom(s, action) ==
    \E garbage \in GarbageKinds :
        /\ garbage = kEmpty \/ s.ub
        /\ Outcome(IF garbage = kEmpty THEN s ELSE Tick(state, action, garbage),
                   action)
        /\ ub' = (ub \/ s.ub)

ApplyAction(action) ==
    /\ ticks < MaxTicks
    /\ StepFrom(Tick(state, action, kEmpty), action)
    /\ ticks' = ticks + 1
    /\ terminal_ticks' = IF is_terminal(state) THEN terminal_ticks + 1
                         ELSE terminal_ticks
    /\ level' = level
    /\ construction' = construction

Next == \E action \in 0..(kNumActions - 1) : ApplyAction(action)

Spec == Init /\ [][Next]_vars

(***************************************************************************)
(* Construction from level strings: the strings of up to MaxTokens tokens  *)
(* of TokenSet, built with and without NDEBUG.                             *)
(***************************************************************************)
MaxTokens == 5

\* "0", "1", "2", "50", "-1"
TokenSet == {<<"0">>, <<"1">>, <<"2">>, <<"5", "0">>, <<"-", "1">>}

\* The tokens separated by '|'.
RECURSIVE JoinTokens(_)
JoinTokens(tokens) ==
    IF tokens = <<>> THEN <<>>
    ELSE IF Len(tokens) = 1 THEN tokens[1]
    ELSE tokens[1] \o <<"|">> \o JoinTokens(Tail(tokens))

ParseInit ==
    \E n \in 0..MaxTokens :
        \E tokens \in [1..n -> TokenSet] :
            /\ construction = [board_str |-> JoinTokens(tokens),
                               ndebug |-> FALSE, error |-> "unbuilt"]
            /\ state = NoGameState
            /\ level = 0
            /\ ticks = 0
            /\ terminal_ticks = 0
            /\ ub = FALSE
            /\ last = [action |-> kNoop, before |-> NoGameState,
                       after_agent |-> NoGameState, log |-> <<>>]

\* The constructor called on board_str with the default parameters.
ConstructState(ndebug) ==
    /\ construction.error = "unbuilt"
    /\ construction' =
            [construction EXCEPT
                !.ndebug = ndebug,
                !.error = Construct(construction.board_str, DefaultParams,
                                    ndebug).error]
    /\ state' = Construct(construction.board_str, DefaultParams, ndebug).state
    /\ ub' = (construction'.error = "ub")
    /\ UNCHANGED <<level, ticks, terminal_ticks, last>>

ParseNext == \E ndebug \in BOOLEAN : ConstructState(ndebug)

ParseSpec == ParseInit /\ [][ParseNext]_vars

(***************************************************************************)
(* Properties                                                              *)
(***************************************************************************)
\* The flat indices of the cells of kind Agent or AgentInExit.
AgentCells(g) == {i \in DOMAIN g.grid : g.grid[i] \in {kAgent, kAgentInExit}}

\* The hash recomputed from scratch, as the constructor computes it.
RecomputedHash(g) == InitialHash([g EXCEPT !.hash = IntToWord(0)], 0).hash

\* C1: after construction and after every apply_action, hash equals the XOR
\* over all cells i of the hash value of (grid[i], i).
HashEqualsRecomputed == state.hash = RecomputedHash(state)

\* C2: in every reachable state, the number of cells of kind Agent or
\* AgentInExit is exactly one if and only if is_agent_alive is true.
OneAgentCellIffAlive ==
    (Cardinality(AgentCells(state)) = 1) <=> state.is_agent_alive

\* C3: once the agent has died, the grid contains no cell of kind Agent or
\* AgentInExit, in that state and in every state reached afterwards.
NoAgentCellOnceDead == ~state.is_agent_alive => AgentCells(state) = {}

\* C4: whenever the grid contains a cell of kind Agent or AgentInExit,
\* agent_idx is the flat index of that cell, and agent_idx is always within
\* [0, rows*cols).
AgentIdxPointsToAgentCell ==
    /\ \A i \in AgentCells(state) : state.agent_idx = i
    /\ state.agent_idx >= 0
    /\ state.agent_idx < state.rows * state.cols

\* C4, witness: the agent has moved off its initial cell and agent_idx is
\* the cell that holds it.
AgentCellMoved ==
    /\ ticks > 0
    /\ state.agent_idx # ParsedLevels[level].agent_idx
    /\ AgentCells(state) = {state.agent_idx}

\* C5: once is_terminal() is true, no apply_action changes agent_idx.
AgentIdxFrozenOnceTerminal ==
    [][is_terminal(state) => state'.agent_idx = state.agent_idx]_vars

\* C6: after construction and after each apply_action, every entry of
\* has_updated is false.
HasUpdatedAllFalse == \A i \in DOMAIN state.has_updated : ~state.has_updated[i]

\* C7: gems_collected never decreases across an apply_action, and it
\* increases by at most one per tick.
GemsCollectedStepsByAtMostOne ==
    [][/\ state'.gems_collected >= state.gems_collected
       /\ state'.gems_collected <= state.gems_collected + 1]_vars

\* C7, witness: a diamond has been collected.
GemCollected == ticks > 0 /\ state.gems_collected >= 1

\* C8: terminality latches: once is_terminal() is true it stays true after
\* apply_action; is_agent_alive never goes from false to true and
\* is_agent_in_exit never goes from true to false.
TerminalityLatches ==
    [][/\ is_terminal(state) => is_terminal(state')
       /\ ~state.is_agent_alive => ~state'.is_agent_alive
       /\ state.is_agent_in_exit => state'.is_agent_in_exit]_vars

\* C8, witness: apply_action has been called on a terminal state, and the
\* state after it is terminal.
SteppedWhileTerminal == terminal_ticks >= 1 /\ is_terminal(state)

\* The grid, hash, reward_signal and random_state of a game state.
Observables(g) == <<g.grid, g.hash, g.reward_signal, g.random_state>>

\* C9: determinism: from the same state the same action yields the same
\* grid, hash, reward_signal and random_state, whatever lies outside the
\* state.
TickOutcomeIsUnique ==
    \A action \in 0..(kNumActions - 1) :
        \A garbage \in GarbageKinds :
            Observables(apply_action(state, action, garbage))
                = Observables(apply_action(state, action, kEmpty))

\* C10: round trip: the state constructed from state.pack() equals the state
\* in every field, has the same hash, and the two are equal after the same
\* action.
PackRoundTrip ==
    /\ FromInternalState(pack(state)) = state
    /\ FromInternalState(pack(state)).hash = state.hash
    /\ \A action \in 0..(kNumActions - 1) :
            apply_action(FromInternalState(pack(state)), action, kEmpty)
                = apply_action(state, action, kEmpty)

\* C10, witness: a state after a tick that wrote cells, with the blob swap
\* kind decided, is packed.
PackedAfterTick ==
    /\ ticks > 0
    /\ state.blob_swap # kNull
    /\ \E i \in DOMAIN state.has_updated : state.has_updated[i]
    /\ FromInternalState(pack(state)) = state

\* C11: when the action targets a cell that is out of bounds or holds
\* WallBrick or WallSteel, the agent step changes neither agent_idx nor
\* gems_collected nor any cell, and the scan of the same tick still covers
\* the grid: every cell is dispatched, or was written before its turn.
AgentStepIntoWallIsNoOp ==
    LET g   == last.before
        dir == action_to_direction(last.action)
    IN  (/\ ticks > 0
         /\ \/ ~InBounds(g, g.agent_idx, dir)
            \/ GetItem(g, g.agent_idx, dir) \in {kWallBrick, kWallSteel})
        => /\ last.after_agent.agent_idx = g.agent_idx
           /\ last.after_agent.gems_collected = g.gems_collected
           /\ last.after_agent.grid = g.grid
           /\ \A i \in DOMAIN g.grid :
                \E k \in 1..Len(last.log) :
                    /\ last.log[k][2] = i
                    /\ last.log[k][1] \in {"UpdateCell", "MoveItem", "SetItem"}

\* C11, witness: the action targeted a wall or a cell outside the board, and
\* the scan of that tick changed the grid.
AgentBlockedWorldAdvanced ==
    LET g   == last.before
        dir == action_to_direction(last.action)
    IN  /\ ticks > 0
        /\ \/ ~InBounds(g, g.agent_idx, dir)
           \/ GetItem(g, g.agent_idx, dir) \in {kWallBrick, kWallSteel}
        /\ last.after_agent.grid = g.grid
        /\ state.grid # g.grid

\* The kind of the cell at index just before event k of the last tick: what
\* the last write to the cell before k left there.
KindBefore(k, index) ==
    LET writes == {j \in 1..(k - 1) :
                        /\ last.log[j][1] \in {"MoveItem", "SetItem"}
                        /\ last.log[j][2] = index}
    IN  IF writes = {} THEN last.before.grid[index]
        ELSE last.log[CHOOSE j \in writes : \A m \in writes : m <= j][4]

\* C12, as stated: with gravity on, a Stone or StoneFalling whose cell below
\* is Empty before the tick is a StoneFalling one row lower after the tick.
StoneFallsOneRowPerTick ==
    (ticks > 0 /\ last.before.gravity)
    => \A i \in DOMAIN last.before.grid :
            (/\ last.before.grid[i] \in {kStone, kStoneFalling}
             /\ i + state.cols \in DOMAIN state.grid
             /\ last.before.grid[i + state.cols] = kEmpty)
            => state.grid[i + state.cols] = kStoneFalling

\* C12, amended: with gravity on, when the scan dispatches a Stone or
\* StoneFalling whose cell below is Empty at that moment, the dispatch moves
\* it one row down as StoneFalling, the scan does not dispatch the cell it
\* moved to in the same tick, and the stone is there after the tick unless a
\* later write of the tick overwrote that cell.
DispatchedStoneFallsOneRow ==
    (ticks > 0 /\ last.before.gravity)
    => \A k \in 1..Len(last.log) :
            (/\ last.log[k][1] = "UpdateCell"
             /\ last.log[k][3] \in {kStone, kStoneFalling}
             /\ last.log[k][2] + state.cols \in DOMAIN state.grid
             /\ KindBefore(k, last.log[k][2] + state.cols) = kEmpty)
            => \E m \in (k + 1)..(Len(last.log) - 1) :
                    /\ m <= k + 2
                    /\ last.log[m] = <<"MoveItem", last.log[k][2] + state.cols,
                                       kEmpty, kStoneFalling>>
                    /\ last.log[m + 1] = <<"MoveItem", last.log[k][2],
                                           kStoneFalling, kEmpty>>
                    /\ \A n \in (m + 1)..Len(last.log) :
                            ~(/\ last.log[n][1] = "UpdateCell"
                              /\ last.log[n][2] = last.log[k][2] + state.cols)
                    /\ \/ state.grid[last.log[k][2] + state.cols] = kStoneFalling
                       \/ \E n \in (m + 2)..Len(last.log) :
                            /\ last.log[n][1] \in {"MoveItem", "SetItem"}
                            /\ last.log[n][2] = last.log[k][2] + state.cols

\* C12, witness: the scan dispatched a stone with two Empty cells below it;
\* after the tick it is one row lower and the cell below it is still Empty.
StoneFellOverTwoEmptyCells ==
    /\ ticks > 0
    /\ last.before.gravity
    /\ \E k \in 1..Len(last.log) :
            /\ last.log[k][1] = "UpdateCell"
            /\ last.log[k][3] \in {kStone, kStoneFalling}
            /\ last.log[k][2] + 2 * state.cols \in DOMAIN state.grid
            /\ KindBefore(k, last.log[k][2] + state.cols) = kEmpty
            /\ KindBefore(k, last.log[k][2] + 2 * state.cols) = kEmpty
            /\ state.grid[last.log[k][2]] = kEmpty
            /\ state.grid[last.log[k][2] + state.cols] = kStoneFalling
            /\ state.grid[last.log[k][2] + 2 * state.cols] = kEmpty

\* C13: the recursion of Explode ends, and the number of invocations of
\* Explode within one apply_action is at most rows*cols.
ExplodeInvocationsBounded ==
    Cardinality({k \in 1..Len(last.log) : last.log[k][1] = "Explode"})
        <= state.rows * state.cols

\* C13, witness: a chain explosion: within one tick Explode was invoked on
\* two different cells.
ChainExplosion ==
    \E k, m \in 1..Len(last.log) :
        /\ last.log[k][1] = "Explode"
        /\ last.log[m][1] = "Explode"
        /\ last.log[k][2] # last.log[m][2]

\* C14, as stated: on the board of LevelStoneAboveAgent, whatever the action
\* of the first tick, the stone is a StoneFalling at (1,1) after that tick,
\* and after the next tick is_agent_alive is false.
StoneKillsAgentWhateverTheActions ==
    Levels[level] = LevelStoneAboveAgent
    => /\ ticks = 1 => state.grid[4] = kStoneFalling
       /\ ticks = 2 => ~state.is_agent_alive

\* C14, amended: on that board the stone is a StoneFalling at (1,1) after the
\* first tick exactly when the action was not Up (with Up the agent has
\* stepped under the stone, which stays a Stone at (0,1)); and after the
\* next tick is_agent_alive is false exactly when the stone fell in the
\* first tick and the agent was at (2,1) after the agent step of the second.
StoneKillsAgentBelowIt ==
    Levels[level] = LevelStoneAboveAgent
    => /\ ticks = 1 =>
            /\ state.grid[4] = kStoneFalling <=> last.action # kUp
            /\ last.action = kUp => state.grid[1] = kStone /\ state.grid[4] = kAgent
       /\ ticks = 2 =>
            (~state.is_agent_alive
                <=> /\ last.before.grid[4] = kStoneFalling
                    /\ last.after_agent.agent_idx = 7)

\* C14, witness: on that board the stone has fallen on the agent in the
\* second tick.
StoneLandedOnAgent ==
    /\ Levels[level] = LevelStoneAboveAgent
    /\ ticks = 2
    /\ last.before.grid[4] = kStoneFalling
    /\ last.after_agent.grid[7] = kAgent
    /\ ~state.is_agent_alive
    /\ state.grid[7] \in Explosions

RandomStateAdvancedByBlobAndOrange ==
    LET RECURSIVE Advanced(_, _)
        Advanced(random_state, n) ==
            IF n = 0 THEN random_state
            ELSE Advanced(xorshift64(random_state), n - 1)
        draws    == {k \in 1..Len(last.log) : last.log[k][1] = "xorshift64"}
        blobs    == {k \in 1..Len(last.log) :
                        /\ last.log[k][1] = "UpdateCell"
                        /\ last.log[k][3] = kBlob
                        /\ last.before.blob_swap = kNull}
        reroutes == {k \in 1..Len(last.log) :
                        /\ last.log[k][1] = "SetItem"
                        /\ last.log[k][3] \in Oranges
                        /\ last.log[k][4] \in Oranges}
    IN  /\ Cardinality(draws) = 2 * Cardinality(blobs) + Cardinality(reroutes)
        /\ \A k \in draws : last.log[k][3] \in Oranges \cup {kBlob}
        /\ state.random_state
                = Advanced(last.before.random_state, Cardinality(draws))
        /\ (\A i \in DOMAIN last.before.grid :
                last.before.grid[i] \notin Oranges \cup {kBlob})
            => state.random_state = last.before.random_state

\* C16, witness: in the last tick an Orange rerouted, and random_state is not
\* what it was before the tick.
OrangeRerouted ==
    /\ ticks > 0
    /\ \E k \in 1..Len(last.log) :
            /\ last.log[k][1] = "SetItem"
            /\ last.log[k][3] \in Oranges
            /\ last.log[k][4] \in Oranges
    /\ state.random_state # last.before.random_state

\* C17: reward_signal describes only the last tick: what it holds after an
\* apply_action does not depend on what it held before (the same tick from
\* the same state with every bit of reward_signal set ends with the same
\* reward_signal), and the CollectDiamond bit is set if and only if
\* gems_collected increased during the tick.
RewardSignalDescribesLastTick ==
    ticks > 0 =>
        /\ (kRewardCollectDiamond \subseteq state.reward_signal)
                <=> (state.gems_collected > last.before.gems_collected)
        /\ ~Tick(last.before, last.action, kEmpty).ub
            => apply_action([last.before EXCEPT !.reward_signal = 0..63],
                            last.action, kEmpty).reward_signal
                    = state.reward_signal

\* C17, witness: a tick that started with the CollectDiamond bit set (a
\* diamond was collected in the tick before) and collected nothing ended
\* without the bit.
RewardBitOfEarlierTickGone ==
    /\ ticks > 1
    /\ kRewardCollectDiamond \subseteq last.before.reward_signal
    /\ ~(kRewardCollectDiamond \subseteq state.reward_signal)
    /\ state.gems_collected = last.before.gems_collected
    /\ state.gems_collected > 0

\* C18: construction from a level string fails (an assertion or an exception,
\* and no state) when a cell code is outside [0, 49], when the number of
\* tokens differs from rows * cols + 3, or when the number of cells of kind
\* Agent or AgentInExit is not one; otherwise it succeeds with agent_idx at
\* the unique agent cell and is_agent_alive true.
ConstructionFailsOnMalformedLevel ==
    construction.error # "unbuilt" =>
        LET seglist  == SplitSegments(construction.board_str)
            value(i) == stoi(seglist[i]).value
            agents   == {i \in 4..Len(seglist) :
                            value(i) \in {kAgent, kAgentInExit}}
        IN  IF \/ Len(seglist) < 2
               \/ Len(seglist) # (value(1) * value(2)) + 3
               \/ \E i \in 4..Len(seglist) :
                        value(i) < 0 \/ value(i) >= kNumHiddenCellType
               \/ Cardinality(agents) # 1
            THEN /\ construction.error \in {"assert", "invalid_argument"}
                 /\ state = NoGameState
            ELSE /\ construction.error = "none"
                 /\ state.agent_idx + 4 \in agents
                 /\ state.is_agent_alive

\* C18, witness: a build with NDEBUG constructed a state from a level string
\* of five tokens for a board of 1 x 1.
TokenCountNotCheckedWithNDEBUG ==
    /\ construction.error = "none"
    /\ construction.ndebug
    /\ state # NoGameState
    /\ Len(SplitSegments(construction.board_str)) = 5
    /\ state.rows = 1
    /\ state.cols = 1

\* C19: when the action of a live agent targets a cell that holds ExitOpen at
\* the start of the tick, then after the tick the target cell holds
\* AgentInExit, the agent step left Empty in the cell the agent came from,
\* agent_idx is the exit cell, is_agent_in_exit and is_solution() are true
\* and reward_signal has the WalkThroughExit bit; and an agent that enters an
\* exit in a tick enters a cell that held ExitOpen when the tick started.
AgentEntersOpenExit ==
    LET g      == last.before
        target == IndexFromDirection(g, g.agent_idx, action_to_direction(last.action))
    IN  ticks > 0 =>
        /\ (/\ g.is_agent_alive
            /\ ~g.is_agent_in_exit
            /\ IsType(g, g.agent_idx, kExitOpen, action_to_direction(last.action)))
            => /\ state.grid[target] = kAgentInExit
               /\ last.after_agent.grid[g.agent_idx] = kEmpty
               /\ state.agent_idx = target
               /\ state.is_agent_in_exit
               /\ is_solution(state)
               /\ kRewardWalkThroughExit \subseteq state.reward_signal
        /\ (~g.is_agent_in_exit /\ state.is_agent_in_exit)
            => g.grid[state.agent_idx] = kExitOpen

\* C19, witness: in the last tick a live agent stepped into a cell that held
\* ExitOpen, and it is in the exit.
AgentWalkedThroughExit ==
    /\ ticks > 0
    /\ last.before.is_agent_alive
    /\ ~last.before.is_agent_in_exit
    /\ IsType(last.before, last.before.agent_idx, kExitOpen,
              action_to_direction(last.action))
    /\ state.is_agent_in_exit
    /\ state.grid[state.agent_idx] = kAgentInExit

\* C20: whenever Explode overwrites a cell that held Agent with an explosion,
\* the cell being the target of the explosion or a neighbour of the target,
\* is_agent_alive is false afterwards.
ExplodedAgentIsDead ==
    \A k \in 1..Len(last.log) :
        (/\ last.log[k][1] \in {"Explode", "SetItem"}
         /\ last.log[k][3] = kAgent
         /\ last.log[k][4] \in Explosions)
        => ~state.is_agent_alive

\* C20, witness: in the last tick the agent was alive, an explosion whose
\* target was another cell reached the cell of the agent and overwrote it,
\* and the agent is dead.
AgentNextToExplosionDied ==
    /\ last.before.is_agent_alive
    /\ ~state.is_agent_alive
    /\ \E k \in 1..Len(last.log) :
            /\ last.log[k][1] = "SetItem"
            /\ last.log[k][2] = last.before.agent_idx
            /\ last.log[k][3] = kAgent
            /\ last.log[k][4] \in Explosions
            /\ \E j \in 1..(k - 1) :
                    /\ last.log[j][1] = "Explode"
                    /\ last.log[j][2] # last.log[k][2]

\* C21, as stated: when the scan dispatches a StoneFalling whose cell below
\* holds Nut, after the update the stone's cell is Empty, the cell below is
\* Diamond and reward_signal has the NutToDiamond bit.
StoneCrackingNutIsRemoved ==
    \A k \in 1..Len(last.log) :
        (/\ last.log[k][1] = "UpdateCell"
         /\ last.log[k][3] = kStoneFalling
         /\ last.log[k][2] + state.cols \in DOMAIN state.grid
         /\ KindBefore(k, last.log[k][2] + state.cols) = kNut)
        => /\ KindBefore(k + 2, last.log[k][2]) = kEmpty
           /\ KindBefore(k + 2, last.log[k][2] + state.cols) = kDiamond
           /\ kRewardNutToDiamond \subseteq state.reward_signal

\* C21, amended: when the scan dispatches a StoneFalling whose cell below
\* holds Nut, the update makes one write, of Diamond to the cell below: the
\* stone's cell still holds StoneFalling after the update, the cell below is
\* Diamond, and reward_signal has the NutToDiamond bit.
StoneCrackingNutStays ==
    \A k \in 1..Len(last.log) :
        (/\ last.log[k][1] = "UpdateCell"
         /\ last.log[k][3] = kStoneFalling
         /\ last.log[k][2] + state.cols \in DOMAIN state.grid
         /\ KindBefore(k, last.log[k][2] + state.cols) = kNut)
        => /\ k < Len(last.log)
           /\ last.log[k + 1] = <<"SetItem", last.log[k][2] + state.cols,
                                  kNut, kDiamond>>
           /\ k + 2 <= Len(last.log) => last.log[k + 2][1] = "UpdateCell"
           /\ KindBefore(k + 2, last.log[k][2]) = kStoneFalling
           /\ KindBefore(k + 2, last.log[k][2] + state.cols) = kDiamond
           /\ kRewardNutToDiamond \subseteq state.reward_signal

\* C21, witness: in the last tick the scan dispatched a StoneFalling above a
\* Nut; after the tick the nut is a Diamond and the stone is still above it.
StoneCrackedNut ==
    \E k \in 1..Len(last.log) :
        /\ last.log[k][1] = "UpdateCell"
        /\ last.log[k][3] = kStoneFalling
        /\ last.log[k][2] + state.cols \in DOMAIN state.grid
        /\ KindBefore(k, last.log[k][2] + state.cols) = kNut
        /\ state.grid[last.log[k][2] + state.cols] = kDiamond
        /\ state.grid[last.log[k][2]] = kStoneFalling
        /\ kRewardNutToDiamond \subseteq state.reward_signal

\* C22: when the scan dispatches a Butterfly facing dir with no Agent or Blob
\* next to it, whose neighbour in the right-rotated direction and whose
\* neighbour in direction dir are both not Empty, then with butterfly_move_ver
\* = Delay the update leaves it in its cell, facing rotate_left[dir], and
\* with Instant the update leaves its cell Empty and the butterfly, facing
\* rotate_left[dir], in the neighbouring cell of the board one step in that
\* direction.
BlockedButterflyTurnsLeft ==
    LET g      == last.before
        n      == Len(last.log)
        upd    == {m \in 1..n : last.log[m][1] = "UpdateCell"}
        end(k) == IF \E m \in upd : m > k
                  THEN CHOOSE m \in upd : m > k /\ \A j \in upd : j > k => m <= j
                  ELSE n + 1
        holds(k, kind, dir) ==
            /\ InBounds(g, last.log[k][2], dir)
            /\ KindBefore(k, IndexFromDirection(g, last.log[k][2], dir)) = kind
    IN  \A k \in upd :
            LET i    == last.log[k][2]
                dir  == kButterflyToDirection(last.log[k][3])
                left == kRotateLeft(dir)
            IN  (/\ IsButterfly(last.log[k][3])
                 /\ \A d \in {kUp, kRight, kDown, kLeft} :
                        ~holds(k, kAgent, d) /\ ~holds(k, kBlob, d)
                 /\ ~holds(k, kEmpty, kRotateRight(dir))
                 /\ ~holds(k, kEmpty, dir))
                => IF g.butterfly_move_ver = kDelay
                   THEN /\ KindBefore(end(k), i) = kDirectionToButterfly(left)
                        /\ \A m \in (k + 1)..(end(k) - 1) : last.log[m][2] = i
                   ELSE /\ InBounds(g, i, left)
                        /\ KindBefore(end(k), i) = kEmpty
                        /\ KindBefore(end(k), IndexFromDirection(g, i, left))
                                = kDirectionToButterfly(left)

\* C22, witness: in the last tick, with butterfly_move_ver = Instant, a
\* blocked butterfly turned left and moved into the neighbouring cell in its
\* new direction, where it is after the tick.
InstantButterflyTurnedAndMoved ==
    /\ last.before.butterfly_move_ver = kInstant
    /\ \E k \in 1..Len(last.log) :
        LET i    == last.log[k][2]
            left == kRotateLeft(kButterflyToDirection(last.log[k][3]))
        IN  /\ last.log[k][1] = "UpdateCell"
            /\ IsButterfly(last.log[k][3])
            /\ k + 3 <= Len(last.log)
            /\ last.log[k + 1] = <<"SetItem", i, last.log[k][3],
                                   kDirectionToButterfly(left)>>
            /\ last.log[k + 2][1] = "MoveItem"
            /\ InBounds(last.before, i, left)
            /\ last.log[k + 2][2] = IndexFromDirection(last.before, i, left)
            /\ state.grid[IndexFromDirection(last.before, i, left)]
                    = kDirectionToButterfly(left)
            /\ state.grid[i] = kEmpty

\* C23: when the action targets an open gate: if the cell one step past the
\* gate in the same direction is on the board and Traversable, then after
\* the agent step the agent is at that far cell, the cell it came from is
\* Empty, the gate cell is unchanged, a Diamond or DiamondFalling at the far
\* cell has been collected (gems_collected + 1, CollectDiamond), a Key there
\* has been collected (every closed gate of its colour is open, CollectKey
\* and the bit of its colour), and WalkThroughGate and the bit of the gate's
\* colour are set; otherwise the agent step changes nothing.  (The kinds of
\* colour c = 0..3 are 27 + 3c closed gate, 28 + 3c open gate, 29 + 3c key;
\* its reward bits are 6 + c for the key and 11 + c for the gate.)
AgentWalksThroughOpenGate ==
    LET g    == last.before
        a    == last.after_agent
        dir  == action_to_direction(last.action)
        gate == IndexFromDirection(g, g.agent_idx, dir)
        far  == IndexFromDirection(g, gate, dir)
        colour(el) == (el - kGateRedClosed) \div 3
    IN  (/\ ticks > 0
         /\ InBounds(g, g.agent_idx, dir)
         /\ g.grid[gate] \in {kGateRedOpen, kGateBlueOpen, kGateGreenOpen,
                              kGateYellowOpen})
        => IF InBounds(g, gate, dir)
              /\ g.grid[far] \in {kEmpty, kDirt, kDiamond, kDiamondFalling,
                                  kExitOpen, kKeyRed, kKeyBlue, kKeyGreen,
                                  kKeyYellow}
           THEN /\ a.agent_idx = far
                /\ a.grid[far] = kAgent
                /\ a.grid[g.agent_idx] = kEmpty
                /\ a.grid[gate] = g.grid[gate]
                /\ a.gems_collected =
                        IF g.grid[far] \in {kDiamond, kDiamondFalling}
                        THEN g.gems_collected + 1 ELSE g.gems_collected
                /\ g.grid[far] \in {kDiamond, kDiamondFalling}
                        => kRewardCollectDiamond \subseteq a.reward_signal
                /\ g.grid[far] \in {kKeyRed, kKeyBlue, kKeyGreen, kKeyYellow}
                        => /\ {5, 6 + colour(g.grid[far])} \subseteq a.reward_signal
                           /\ \A i \in DOMAIN g.grid :
                                g.grid[i] = kGateRedClosed + 3 * colour(g.grid[far])
                                => a.grid[i] = kGateRedOpen + 3 * colour(g.grid[far])
                /\ {10, 11 + colour(g.grid[gate])} \subseteq a.reward_signal
           ELSE /\ a.grid = g.grid
                /\ a.hash = g.hash
                /\ a.agent_idx = g.agent_idx
                /\ a.gems_collected = g.gems_collected
                /\ a.reward_signal = {}
                /\ a.is_agent_alive = g.is_agent_alive
                /\ a.is_agent_in_exit = g.is_agent_in_exit

\* C23, witness: in the last tick the agent walked through an open gate onto
\* a key, which opened a closed gate of the key's colour.
AgentTookKeyBehindGate ==
    LET g    == last.before
        a    == last.after_agent
        dir  == action_to_direction(last.action)
        gate == IndexFromDirection(g, g.agent_idx, dir)
        far  == IndexFromDirection(g, gate, dir)
    IN  /\ ticks > 0
        /\ g.is_agent_alive
        /\ InBounds(g, g.agent_idx, dir)
        /\ IsOpenGate(g.grid[gate])
        /\ InBounds(g, gate, dir)
        /\ IsKey(g.grid[far])
        /\ a.agent_idx = far
        /\ \E i \in DOMAIN g.grid :
                g.grid[i] = kKeyToGate(g.grid[far]) /\ a.grid[i] # g.grid[i]

\* C24: when the action of a live agent targets a Stone, Nut or Bomb: if the
\* action is Left or Right and the cell two steps away in that direction is
\* in the same row and Empty, then after the agent step the object is one
\* step further, as its falling variant if the cell below its new position
\* was Empty and as its resting variant otherwise, and the agent is in the
\* object's old cell; if the cell two steps away is not Empty or is off the
\* board, or the action is Up or Down, no cell changes and agent_idx is
\* unchanged.  (The falling variant of a kind is the next kind of the
\* enumeration.)
PushMovesObjectOneStep ==
    LET g      == last.before
        a      == last.after_agent
        dir    == action_to_direction(last.action)
        target == IndexFromDirection(g, g.agent_idx, dir)
        next   == IndexFromDirection(g, target, dir)
    IN  (/\ ticks > 0
         /\ g.is_agent_alive
         /\ ~g.is_agent_in_exit
         /\ InBounds(g, g.agent_idx, dir)
         /\ g.grid[target] \in {kStone, kNut, kBomb})
        => IF /\ dir \in {kLeft, kRight}
              /\ InBounds(g, target, dir)
              /\ g.grid[next] = kEmpty
           THEN /\ a.grid[next] =
                        IF InBounds(g, next, kDown)
                           /\ g.grid[next + g.cols] = kEmpty
                        THEN g.grid[target] + 1
                        ELSE g.grid[target]
                /\ a.grid[target] = kAgent
                /\ a.agent_idx = target
                /\ a.grid[g.agent_idx] = kEmpty
                /\ \A i \in DOMAIN g.grid \ {g.agent_idx, target, next} :
                        a.grid[i] = g.grid[i]
           ELSE /\ a.grid = g.grid
                /\ a.agent_idx = g.agent_idx

\* C24, witness: in the last tick a live agent pushed an object over an Empty
\* cell, where it became its falling variant.
PushedObjectStartedFalling ==
    LET g      == last.before
        a      == last.after_agent
        dir    == action_to_direction(last.action)
        target == IndexFromDirection(g, g.agent_idx, dir)
        next   == IndexFromDirection(g, target, dir)
    IN  /\ ticks > 0
        /\ g.is_agent_alive
        /\ dir \in {kLeft, kRight}
        /\ InBounds(g, g.agent_idx, dir)
        /\ g.grid[target] \in {kStone, kNut, kBomb}
        /\ InBounds(g, target, dir)
        /\ a.grid[next] = g.grid[target] + 1
        /\ a.grid[target] = kAgent
        /\ a.agent_idx = target

ExitOpensWhenGemsSuffice ==
    ticks > 0 =>
        /\ state.gems_collected >= state.gems_required
                => \A i \in DOMAIN state.grid : state.grid[i] # kExitClosed
        /\ \A k \in 1..Len(last.log) :
                (last.log[k][1] = "UpdateCell" /\ last.log[k][3] = kExitClosed)
                => IF last.after_agent.gems_collected >= state.gems_required
                   THEN /\ k < Len(last.log)
                        /\ last.log[k + 1] = <<"SetItem", last.log[k][2],
                                               kExitClosed, kExitOpen>>
                   ELSE k < Len(last.log) => last.log[k + 1][1] = "UpdateCell"
        /\ \A i \in DOMAIN state.grid :
                (last.before.grid[i] = kExitClosed /\ state.grid[i] = kExitOpen)
                => state.gems_collected >= state.gems_required

\* C26, witness: the last tick collected the last required gem, and the exit
\* opened in the same tick.
ExitOpenedWithLastGem ==
    /\ ticks > 0
    /\ last.before.gems_collected < last.before.gems_required
    /\ state.gems_collected >= state.gems_required
    /\ \E i \in DOMAIN state.grid :
            last.before.grid[i] = kExitClosed /\ state.grid[i] = kExitOpen

\* C27: magic_wall_steps never increases and is never negative; a tick
\* decrements it by exactly one when magic_active is true at the end of its
\* scan (it was true before the tick, or the scan dispatched a falling stone
\* or diamond above a WallMagicOn or WallMagicDormant cell while the budget
\* was positive) and leaves it unchanged otherwise; after every apply_action
\* magic_active implies magic_wall_steps > 0; and once the budget is 0,
\* magic_active is false after the tick and a falling object dispatched above
\* a magic wall is not converted: its update writes no cell.
MagicWallBudgetCountsDown ==
    LET g      == last.before
        hits   == {k \in 1..Len(last.log) :
                        /\ last.log[k][1] = "UpdateCell"
                        /\ last.log[k][3] \in {kStoneFalling, kDiamondFalling}
                        /\ last.log[k][2] + g.cols \in DOMAIN g.grid
                        /\ KindBefore(k, last.log[k][2] + g.cols)
                                \in {kWallMagicOn, kWallMagicDormant}}
        active == g.magic_active \/ (g.magic_wall_steps > 0 /\ hits # {})
    IN  /\ state.magic_wall_steps >= 0
        /\ state.magic_active => state.magic_wall_steps > 0
        /\ ticks > 0 =>
            /\ state.magic_wall_steps <= g.magic_wall_steps
            /\ state.magic_wall_steps =
                    IF active THEN g.magic_wall_steps - 1 ELSE g.magic_wall_steps
            /\ state.magic_active = (active /\ state.magic_wall_steps > 0)
            /\ g.magic_wall_steps = 0
                    => /\ ~state.magic_active
                       /\ \A k \in hits :
                            k < Len(last.log) => last.log[k + 1][1] = "UpdateCell"

\* C27, witness: the budget was used up before the last tick, and in the last
\* tick a falling stone above a magic wall that was still on stayed where it
\* was.
StoneStoppedByExhaustedWall ==
    /\ ticks > 0
    /\ last.before.magic_wall_steps = 0
    /\ \E k \in 1..Len(last.log) :
            /\ last.log[k][1] = "UpdateCell"
            /\ last.log[k][3] = kStoneFalling
            /\ last.log[k][2] + state.cols \in DOMAIN state.grid
            /\ KindBefore(k, last.log[k][2] + state.cols) = kWallMagicOn
            /\ state.grid[last.log[k][2]] = kStoneFalling

\* C28 (as stated): magic_active changes from false to true only in a tick in
\* which a falling stone or diamond passes through a magic wall: the scan
\* dispatches it above a WallMagicOn or WallMagicDormant cell, empties its
\* cell and places the converted kind in the cell under the wall.
MagicActivatesOnlyOnPass ==
    (ticks > 0 /\ ~last.before.magic_active /\ state.magic_active)
        => \E k \in 1..(Len(last.log) - 2) :
            /\ last.log[k][1] = "UpdateCell"
            /\ last.log[k][3] \in {kStoneFalling, kDiamondFalling}
            /\ last.log[k][2] + state.cols \in DOMAIN state.grid
            /\ KindBefore(k, last.log[k][2] + state.cols)
                    \in {kWallMagicOn, kWallMagicDormant}
            /\ last.log[k + 1] = <<"SetItem", last.log[k][2], last.log[k][3], kEmpty>>
            /\ last.log[k + 2] = <<"SetItem", last.log[k][2] + 2 * state.cols, kEmpty,
                                   kMagicWallConversion(last.log[k][3])>>

\* C28 (amended): magic_active changes from false to true exactly in the ticks
\* that start with magic_wall_steps > 1 and whose scan dispatches a falling
\* stone or diamond directly above a WallMagicOn or WallMagicDormant cell,
\* whether or not the object passes through the wall.
MagicActivatesOnDispatchAboveWall ==
    LET g    == last.before
        hits == {k \in 1..Len(last.log) :
                    /\ last.log[k][1] = "UpdateCell"
                    /\ last.log[k][3] \in {kStoneFalling, kDiamondFalling}
                    /\ last.log[k][2] + g.cols \in DOMAIN g.grid
                    /\ KindBefore(k, last.log[k][2] + g.cols)
                            \in {kWallMagicOn, kWallMagicDormant}}
    IN  (ticks > 0 /\ ~g.magic_active)
            => (state.magic_active <=> (g.magic_wall_steps > 1 /\ hits # {}))

\* C28, witness: the wall was activated in a tick in which no cell under a
\* magic wall received a converted object.
WallActivatedWithoutPassing ==
    /\ ticks > 0
    /\ ~last.before.magic_active
    /\ state.magic_active
    /\ \A k \in 1..Len(last.log) :
            last.log[k][1] = "SetItem"
                => ~(/\ last.log[k][3] = kEmpty
                     /\ last.log[k][4] \in {kStoneFalling, kDiamondFalling}
                     /\ last.log[k][2] - state.cols \in DOMAIN state.grid
                     /\ KindBefore(k, last.log[k][2] - state.cols)
                            \in {kWallMagicOn, kWallMagicDormant})

\* C29: when the scan dispatches a falling stone or diamond directly above a
\* WallMagicOn or WallMagicDormant cell, then if magic_wall_steps > 0 and the
\* cell two rows below the object is in bounds and Empty, the update writes
\* exactly two cells, the object's cell (Empty) and the cell under the wall
\* (the converted kind), and not the wall; in every other case the update
\* writes no cell, so the grid and the hash are as before and the object
\* stays where it is.
MoveThroughMagicPassesOrLeaves ==
    ticks > 0 =>
        \A k \in 1..Len(last.log) :
            LET index == last.log[k][2]
                el    == last.log[k][3]
                under == index + 2 * state.cols
                next  == IF \E j \in (k + 1)..Len(last.log) : last.log[j][1] = "UpdateCell"
                         THEN CHOOSE j \in (k + 1)..Len(last.log) :
                                /\ last.log[j][1] = "UpdateCell"
                                /\ \A i \in (k + 1)..(j - 1) : last.log[i][1] # "UpdateCell"
                         ELSE Len(last.log) + 1
            IN  (/\ last.log[k][1] = "UpdateCell"
                 /\ el \in {kStoneFalling, kDiamondFalling}
                 /\ index + state.cols \in DOMAIN state.grid
                 /\ KindBefore(k, index + state.cols) \in {kWallMagicOn, kWallMagicDormant})
                => IF /\ last.before.magic_wall_steps > 0
                      /\ under \in DOMAIN state.grid
                      /\ KindBefore(k, under) = kEmpty
                   THEN /\ next = k + 3
                        /\ last.log[k + 1] = <<"SetItem", index, el, kEmpty>>
                        /\ last.log[k + 2] = <<"SetItem", under, kEmpty,
                                               kMagicWallConversion(el)>>
                        /\ KindBefore(next, index + state.cols)
                                = KindBefore(k, index + state.cols)
                   ELSE /\ next = k + 1
                        /\ KindBefore(next, index) = el

\* C29, witness: in one tick with a positive budget a falling stone passed
\* through a magic wall and another one, above a magic wall in the bottom
\* row, stayed where it was.
StonePassedAndStoneStayed ==
    /\ ticks > 0
    /\ last.before.magic_wall_steps > 0
    /\ \E k \in 1..(Len(last.log) - 2) :
            /\ last.log[k][1] = "UpdateCell"
            /\ last.log[k][3] = kStoneFalling
            /\ last.log[k + 1] = <<"SetItem", last.log[k][2], kStoneFalling, kEmpty>>
            /\ last.log[k + 2] = <<"SetItem", last.log[k][2] + 2 * state.cols, kEmpty,
                                   kDiamondFalling>>
    /\ \E i \in DOMAIN state.grid :
            /\ i + state.cols \in DOMAIN state.grid
            /\ i + 2 * state.cols \notin DOMAIN state.grid
            /\ last.before.grid[i] = kStoneFalling
            /\ state.grid[i] = kStoneFalling
            /\ last.before.grid[i + state.cols] \in {kWallMagicOn, kWallMagicDormant}

\* C30: when the scan dispatches a DiamondFalling whose cell below holds Bomb
\* or BombFalling, its update explodes nothing and creates no Explosion* cell,
\* the bomb stays in its cell, and the diamond rolls left if it can, else
\* right if it can, else becomes a resting Diamond; when the scan dispatches a
\* StoneFalling in the same position, its update is an explosion at the bomb's
\* cell, which becomes an Explosion* cell.
DiamondFallingSparesBomb ==
    ticks > 0 =>
        \A k \in 1..Len(last.log) :
            LET index == last.log[k][2]
                below == index + state.cols
                col   == index % state.cols
                next  == IF \E j \in (k + 1)..Len(last.log) : last.log[j][1] = "UpdateCell"
                         THEN CHOOSE j \in (k + 1)..Len(last.log) :
                                /\ last.log[j][1] = "UpdateCell"
                                /\ \A i \in (k + 1)..(j - 1) : last.log[i][1] # "UpdateCell"
                         ELSE Len(last.log) + 1
                explosions == {kExplosionDiamond, kExplosionBoulder, kExplosionEmpty}
                left  == /\ col > 0
                         /\ KindBefore(k, index - 1) = kEmpty
                         /\ KindBefore(k, below - 1) = kEmpty
                right == /\ col < state.cols - 1
                         /\ KindBefore(k, index + 1) = kEmpty
                         /\ KindBefore(k, below + 1) = kEmpty
            IN  (/\ last.log[k][1] = "UpdateCell"
                 /\ below \in DOMAIN state.grid
                 /\ KindBefore(k, below) \in {kBomb, kBombFalling})
                => /\ last.log[k][3] = kDiamondFalling
                        => /\ \A j \in (k + 1)..(next - 1) :
                                /\ last.log[j][1] # "Explode"
                                /\ last.log[j][4] \notin explosions
                           /\ KindBefore(next, below) = KindBefore(k, below)
                           /\ IF left
                              THEN /\ KindBefore(next, index) = kEmpty
                                   /\ KindBefore(next, index - 1) = kDiamondFalling
                              ELSE IF right
                              THEN /\ KindBefore(next, index) = kEmpty
                                   /\ KindBefore(next, index + 1) = kDiamondFalling
                              ELSE KindBefore(next, index) = kDiamond
                   /\ last.log[k][3] = kStoneFalling
                        => /\ next > k + 1
                           /\ last.log[k + 1][1] = "Explode"
                           /\ last.log[k + 1][2] = below
                           /\ KindBefore(next, below) \in explosions

\* C30, witness: in one tick a falling diamond above a bomb rolled aside, a
\* falling diamond above a falling bomb came to rest, neither update touched
\* the bomb, and a falling stone above a bomb blew it up.
DiamondsSparedBombsStoneDidNot ==
    /\ ticks > 0
    /\ \E k \in 1..(Len(last.log) - 3) :
            /\ last.log[k][1] = "UpdateCell"
            /\ last.log[k][3] = kDiamondFalling
            /\ KindBefore(k, last.log[k][2] + state.cols) = kBomb
            /\ last.log[k + 2] = <<"MoveItem", last.log[k][2] + 1, kEmpty, kDiamondFalling>>
            /\ last.log[k + 3] = <<"MoveItem", last.log[k][2], kDiamondFalling, kEmpty>>
            /\ KindBefore(k + 4, last.log[k][2] + state.cols) = kBomb
    /\ \E k \in 1..(Len(last.log) - 2) :
            /\ last.log[k][1] = "UpdateCell"
            /\ last.log[k][3] = kDiamondFalling
            /\ KindBefore(k, last.log[k][2] + state.cols) = kBombFalling
            /\ last.log[k + 1] = <<"SetItem", last.log[k][2], kDiamondFalling, kDiamond>>
            /\ last.log[k + 2][1] = "UpdateCell"
            /\ KindBefore(k + 2, last.log[k][2] + state.cols) = kBombFalling
    /\ \E k \in 1..(Len(last.log) - 1) :
            /\ last.log[k][1] = "UpdateCell"
            /\ last.log[k][3] = kStoneFalling
            /\ last.log[k + 1] = <<"Explode", last.log[k][2] + state.cols, kBomb,
                                   kExplosionEmpty>>

ExplosionLastsOneTick ==
    ticks > 0 =>
        /\ \A k \in 1..Len(last.log) :
                (last.log[k][1] \in {"SetItem", "Explode"} /\ last.log[k][4] \in Explosions)
                    => state.grid[last.log[k][2]] \in Explosions
        /\ \A i \in DOMAIN state.grid :
                last.before.grid[i] \in Explosions
                    => /\ \E k \in 1..(Len(last.log) - 1) :
                            /\ last.log[k] = <<"UpdateCell", i, last.before.grid[i],
                                               last.before.grid[i]>>
                            /\ last.log[k + 1] = <<"SetItem", i, last.before.grid[i],
                                                   kExplosionToElement(last.before.grid[i])>>
                       /\ state.grid[i] \in Explosions
                            => \E k \in 1..Len(last.log) :
                                    /\ last.log[k][1] \in {"SetItem", "Explode"}
                                    /\ last.log[k][2] = i
                                    /\ last.log[k][3] \notin Explosions
                                    /\ last.log[k][4] \in Explosions

\* C32, witness: an instant butterfly moved onto an Explosion* cell in the
\* tick that created it.
ButterflyMovedOntoExplosion ==
    /\ ticks > 0
    /\ \E k \in 1..Len(last.log) :
            /\ last.log[k][1] = "MoveItem"
            /\ last.log[k][3] \in Explosions
            /\ last.log[k][4] \in Butterflies
            /\ last.before.grid[last.log[k][2]] \notin Explosions

NoDoubleUpdate ==
    LET moves(k) == Cardinality({j \in 1..k : last.log[j][1] = "MoveItem"})
        dest(k)  == \/ last.log[k][1] = "SetItem"
                    \/ last.log[k][1] = "MoveItem" /\ moves(k) % 2 = 1
        src(k)   == last.log[k][1] = "MoveItem" /\ moves(k) % 2 = 0
    IN  ticks > 0 =>
            \A k \in 1..Len(last.log) :
                /\ last.log[k][1] = "UpdateCell"
                    => \A j \in 1..(k - 1) :
                            ~(dest(j) /\ last.log[j][2] = last.log[k][2])
                /\ src(k)
                    => \A j \in 1..(k - 1) :
                            (dest(j) /\ last.log[j][2] = last.log[k][2])
                            => /\ last.log[j][1] = "SetItem"
                               /\ \E u \in 1..(j - 1) :
                                    /\ last.log[u][1] = "UpdateCell"
                                    /\ last.log[u][2] = last.log[k][2]
                                    /\ \A m \in (u + 1)..k : last.log[m][1] # "UpdateCell"

\* C34, witness: in one tick the agent pushed an object, the scan moved an
\* object into a cell it had not reached yet, and neither object's new cell
\* was dispatched.
MovedObjectsSkippedByScan ==
    /\ ticks > 0
    /\ \E k \in 1..Len(last.log) :
            /\ last.log[k][1] = "MoveItem"
            /\ last.log[k][4] \in {kStone, kNut, kBomb}
            /\ \A j \in 1..k : last.log[j][1] # "UpdateCell"
            /\ \E m \in (k + 1)..Len(last.log) :
                    last.log[m][1] = "UpdateCell" /\ last.log[m][2] > last.log[k][2]
    /\ \E u, k, m \in 1..Len(last.log) :
            /\ u < k /\ k < m
            /\ last.log[u][1] = "UpdateCell"
            /\ last.log[k][1] = "MoveItem"
            /\ last.log[k][4] # kEmpty
            /\ last.log[k][2] > last.log[u][2]
            /\ \A j \in (u + 1)..k : last.log[j][1] # "UpdateCell"
            /\ last.log[m][1] = "UpdateCell"
            /\ last.log[m][2] > last.log[k][2]

\* C35: every write to the grid made during apply_action is at a flat index
\* in [0, rows*cols); every MoveItem moves its object between two cells that
\* are neighbours on the board (same row and adjacent columns, or same
\* column and adjacent rows: no wrap-around between the last column of one
\* row and column 0 of the next); and every move of a Firefly, Butterfly or
\* Orange goes into a cell that held Empty.
GridWritesStayOnBoard ==
    LET moves(k) == Cardinality({j \in 1..k : last.log[j][1] = "MoveItem"})
        row(i)   == i \div state.cols
        col(i)   == i % state.cols
    IN  ticks > 0 =>
            \A k \in 1..Len(last.log) :
                /\ last.log[k][1] \in {"MoveItem", "SetItem", "Explode"}
                    => last.log[k][2] \in DOMAIN state.grid
                /\ (last.log[k][1] = "MoveItem" /\ moves(k) % 2 = 1)
                    => LET new_index == last.log[k][2]
                           index     == last.log[k + 1][2]
                       IN  /\ \/ /\ row(new_index) = row(index)
                                 /\ col(new_index) - col(index) \in {-1, 1}
                              \/ /\ col(new_index) = col(index)
                                 /\ row(new_index) - row(index) \in {-1, 1}
                           /\ last.log[k][4] \in Fireflies \cup Butterflies \cup Oranges
                                => last.log[k][3] = kEmpty

\* C35, witness: an instant butterfly in column 0 moved left, into the last
\* cell of the row above, and overwrote what was there.
InstantButterflyWrappedAround ==
    /\ ticks > 0
    /\ last.before.butterfly_move_ver = kInstant
    /\ \E k \in 1..(Len(last.log) - 1) :
            /\ last.log[k][1] = "MoveItem"
            /\ last.log[k][4] = kButterflyLeft
            /\ last.log[k][3] # kEmpty
            /\ last.log[k][2] \in DOMAIN state.grid
            /\ last.log[k][2] % state.cols = state.cols - 1
            /\ last.log[k + 1] = <<"MoveItem", last.log[k][2] + 1, kButterflyLeft, kEmpty>>

\* C36: with gravity = false and an initial board that holds no falling
\* variant, no StoneFalling, DiamondFalling, NutFalling or BombFalling cell
\* ever appears, and every move of a Stone, Diamond, Nut or Bomb (resting or
\* falling) is a move of one cell to the left or to the right.
NothingFallsWithoutGravity ==
    LET falling  == {kStoneFalling, kDiamondFalling, kNutFalling, kBombFalling}
        objects  == {kStone, kDiamond, kNut, kBomb} \cup falling
        moves(k) == Cardinality({j \in 1..k : last.log[j][1] = "MoveItem"})
    IN  (/\ ~state.gravity
         /\ \A i \in DOMAIN ParsedLevels[level].grid :
                ParsedLevels[level].grid[i] \notin falling)
        => /\ \A i \in DOMAIN state.grid : state.grid[i] \notin falling
           /\ \A k \in 1..Len(last.log) :
                (/\ last.log[k][1] = "MoveItem"
                 /\ moves(k) % 2 = 1
                 /\ last.log[k][4] \in objects)
                => /\ last.log[k][2] \div state.cols = last.log[k + 1][2] \div state.cols
                   /\ last.log[k][2] - last.log[k + 1][2] \in {-1, 1}

\* C36, the case: without gravity, on a board that started with no falling
\* variant, a stone the agent pushed over an empty cell became StoneFalling
\* and, in a later tick, moved one row down.
PushedStoneFellWithoutGravity ==
    /\ ticks > 1
    /\ ~state.gravity
    /\ \A i \in DOMAIN ParsedLevels[level].grid :
            ParsedLevels[level].grid[i] \notin
                {kStoneFalling, kDiamondFalling, kNutFalling, kBombFalling}
    /\ \E k \in 1..(Len(last.log) - 1) :
            /\ last.log[k][1] = "MoveItem"
            /\ last.log[k][4] = kStoneFalling
            /\ last.log[k + 1] =
                    <<"MoveItem", last.log[k][2] - state.cols, kStoneFalling, kEmpty>>

\* C37: the agent never destroys an exit. In every tick, a cell that held
\* ExitOpen before the agent step does not hold a plain Agent after it, and
\* when the agent step brings the agent onto such a cell (by a direct move or
\* through an open gate) the cell holds AgentInExit and is_agent_in_exit is
\* set.
AgentNeverDestroysExit ==
    ticks > 0 =>
        \A i \in DOMAIN last.before.grid :
            last.before.grid[i] = kExitOpen =>
                /\ last.after_agent.grid[i] # kAgent
                /\ (last.after_agent.agent_idx = i /\ last.before.agent_idx # i)
                    => /\ last.after_agent.grid[i] = kAgentInExit
                       /\ last.after_agent.is_agent_in_exit

\* C37, the case: a living agent outside the exit walked through an open
\* gate whose far side held ExitOpen; the exit cell now holds a plain Agent
\* and is_agent_in_exit is still false.
AgentWalkedThroughGateOntoExit ==
    LET g    == last.before
        dir  == action_to_direction(last.action)
        gate == IndexFromDirection(g, g.agent_idx, dir)
        far  == IndexFromDirection(g, gate, dir)
    IN  /\ ticks > 0
        /\ g.is_agent_alive
        /\ ~g.is_agent_in_exit
        /\ InBounds(g, g.agent_idx, dir)
        /\ IsOpenGate(g.grid[gate])
        /\ InBounds(g, gate, dir)
        /\ g.grid[far] = kExitOpen
        /\ last.after_agent.grid[far] = kAgent
        /\ last.after_agent.agent_idx = far
        /\ ~last.after_agent.is_agent_in_exit

\* C38: is_solution() is true only for a living agent. In every reachable
\* state is_agent_in_exit implies is_agent_alive, and an apply_action that
\* starts with a dead agent neither sets is_agent_in_exit nor the
\* WalkThroughExit reward bit.
SolutionOnlyForLivingAgent ==
    /\ is_solution(state) => state.is_agent_alive
    /\ (ticks > 0 /\ ~last.before.is_agent_alive)
        => /\ state.is_agent_in_exit = last.before.is_agent_in_exit
           /\ ~(kRewardWalkThroughExit \subseteq state.reward_signal)

\* C38, the case: an apply_action that started with a dead agent outside the
\* exit moved agent_idx onto an ExitOpen cell; the cell is now AgentInExit,
\* is_solution() is true, the WalkThroughExit bit is set and the agent is
\* still dead.
DeadAgentEnteredExit ==
    /\ ticks > 0
    /\ ~last.before.is_agent_alive
    /\ ~last.before.is_agent_in_exit
    /\ last.before.grid[state.agent_idx] = kExitOpen
    /\ state.grid[state.agent_idx] = kAgentInExit
    /\ is_solution(state)
    /\ ~state.is_agent_alive
    /\ kRewardWalkThroughExit \subseteq state.reward_signal

\* C39: on a level whose initial board holds no ExitOpen and no AgentInExit
\* cell, every reachable state in which is_solution() is true has
\* gems_collected >= gems_required.
SolutionHasRequiredGems ==
    (\A i \in DOMAIN ParsedLevels[level].grid :
        ParsedLevels[level].grid[i] \notin {kExitOpen, kAgentInExit})
    => (is_solution(state) => state.gems_collected >= state.gems_required)

\* C39, the case: on a level that requires at least one gem and started with
\* no ExitOpen and no AgentInExit cell, the agent has just walked into the
\* exit, which UpdateExit opened in an earlier tick.
AgentSolvedLevelThatNeedsGems ==
    /\ ticks > 1
    /\ \A i \in DOMAIN ParsedLevels[level].grid :
            ParsedLevels[level].grid[i] \notin {kExitOpen, kAgentInExit}
    /\ state.gems_required > 0
    /\ ParsedLevels[level].grid[state.agent_idx] = kExitClosed
    /\ last.before.grid[state.agent_idx] = kExitOpen
    /\ ~is_solution(last.before)
    /\ is_solution(state)

\* C40: get_indices(kind) and get_positions(kind) accept every hidden cell
\* kind with ordinal in [0, 49]: is_valid_hidden_element holds for all 50
\* kinds, so that in either build the call returns; get_indices returns
\* exactly the indices i with grid[i] = kind, in increasing order, and
\* get_positions the positions (i / cols, i % cols) of those indices.
IndicesOfEveryKindReturned ==
    \A kind \in 0..(kNumHiddenCellType - 1) :
        /\ is_valid_hidden_element(kind)
        /\ \A ndebug \in BOOLEAN :
            LET indices   == get_indices(state, kind, ndebug)
                positions == get_positions(state, kind, ndebug)
            IN  /\ indices.error = "none"
                /\ positions.error = "none"
                /\ \A k \in 1..(Len(indices.value) - 1) :
                        indices.value[k] < indices.value[k + 1]
                /\ {indices.value[k] : k \in 1..Len(indices.value)}
                        = {i \in DOMAIN state.grid : state.grid[i] = kind}
                /\ Len(positions.value) = Len(indices.value)
                /\ \A k \in 1..Len(indices.value) :
                        positions.value[k] = <<indices.value[k] \div state.cols,
                                               indices.value[k] % state.cols>>

\* C40, the case: after a tick the board holds a cell of a kind with ordinal
\* 34 or more; asked for that kind, the build with assertions stops at the
\* assert while the build with NDEBUG returns the cell's index and position.
IndicesOfHighKindRefused ==
    /\ ticks > 0
    /\ \E i \in DOMAIN state.grid :
        LET kind == state.grid[i]
        IN  /\ kind >= kNumVisibleCellType
            /\ kind < kNumHiddenCellType
            /\ get_indices(state, kind, FALSE).error = "assert"
            /\ get_positions(state, kind, FALSE).error = "assert"
            /\ \E k \in 1..Len(get_indices(state, kind, TRUE).value) :
                    /\ get_indices(state, kind, TRUE).value[k] = i
                    /\ get_positions(state, kind, TRUE).value[k]
                            = <<i \div state.cols, i % state.cols>>

=============================================================================
